---- MODULE Spec2Model ----
(***************************************************************************)
(* aimdoc CLI: connection establisher, job update channel, scrape command  *)
(* (phase state machine), polling fallback and download orchestrator.      *)
(*                                                                         *)
(* The module holds several state machines over one set of variables; each *)
(* specification drives one component and leaves the others at rest:       *)
(*   SpecConn       middleware/api-connection (src/unnamed/part_000)       *)
(*   SpecChannel    job update channel (api.ts 181-223)                    *)
(*   SpecScrape     scrape command, phased handler (part_002 148-293)      *)
(*   SpecLegacy     scrape command with polling fallback (part_002         *)
(*                  562-801); SpecLegacyLive adds the fairness of the      *)
(*                  event loop                                             *)
(*   SpecSideBySide phased handler and polling fallback, same job states   *)
(*   SpecDownload   download orchestrators (download.ts, part_002 295-366) *)
(*   SpecFolder     destination folder name (utils.ts, download.ts)        *)
(*   SpecIndex      index text (download.ts 35-53, part_002 388-420)       *)
(***************************************************************************)
EXTENDS Integers, Sequences, FiniteSets, TLC

(***************************************************************************)
(* Bounds of the model (not program constants).                            *)
(***************************************************************************)
MaxCalls == 3
MaxFrames == 2
MaxPolls == 3
MaxFiles == 2
MaxRuns == 2
MaxClock == 2
MaxLen == 3
MaxEntries == 3
MaxTicks == 2

(***************************************************************************)
(* Shared values.                                                          *)
(***************************************************************************)
None == "none"

Min(a, b) == IF a < b THEN a ELSE b

VARIABLES
  \* ---- middleware/api-connection (part_000)
  globalApiInstance,       \* cached handle, 0 = null
  apiConnectionVerified,   \* module flag
  cPc,                     \* position inside ensureApiConnection
  api,                     \* the local `api` of the running call, 0 = none
  isHealthy,               \* the local `isHealthy`
  attempt,                 \* loop variable of the retry loop
  delay,                   \* the wait computed after a failed attempt (ms)
  connSpinner,             \* the 'Connecting to API...' spinner
  cExit,                   \* exit code passed to process.exit, 0 while running
  ret,                     \* handle returned by the last finished call, 0 = none
  probes,                  \* liveness probes issued by the current/last call
  fails,                   \* failed probes of the current/last call
  handles,                 \* AimdocAPI objects constructed so far
  nCalls,                  \* calls of ensureApiConnection so far
  lastGood,                \* history: handle of the last call that probed successfully
                           \* (0 = none, or cleared by resetApiConnection)
  goodFails,               \* history: failed probes of that call
  prevGood,                \* history: lastGood when the current call began
  \* ---- job update channel (api.ts 176-223) and scrape command (part_002 148-293)
  wsState,                 \* readyState of the socket: connecting, open, closing, closed
  sPc,                     \* position of waitForCompletionWithWebSocket
  connectionSpinner,       \* the 'Connecting to job...' spinner
  progressBar,             \* the local `progressBar`
  currentSpinner,          \* the local `currentSpinner`
  lastProgress,            \* the local `lastProgress`
  currentPhase,            \* the local `currentPhase`
  connectionMessageHandled,
  sExit,                   \* exit code passed to process.exit, 0 while running
  printed,                 \* argument of the last printError
  dlStarted,               \* calls of downloadResults
  dlReturned,              \* returns of downloadResults
  completedCloses,         \* history: ws.close() calls of the completed branch
  nFrames,                 \* history: inbound frames and socket errors so far
  lastFrame,               \* history: kind of the last inbound frame
  updateCalls,             \* history: invocations of the update callback
  errorCalls,              \* history: invocations of the error callback
  lastPhaseIn,             \* history: phase read from the last status_update
  inputMonotone,           \* history: the phases read so far never decreased
  indicatorsMade,          \* history: spinners and bars created by the handler
  indicatorsRetired,       \* history: active indicators stopped by the handler
  activeAtInvoke,          \* history: an indicator was active when downloadResults was called
  failedUpdate,            \* history: the update that took the failed branch
  \* ---- scrape command with polling fallback (part_002 562-620, 750-801)
  lWs,                     \* readyState of the socket
  lPc,                     \* position of waitForCompletionWithWebSocket / ...Fallback
  spinner,                 \* the 'Connecting to job...' spinner
  pollSpinner,             \* the 'Starting scrape...' spinner of the fallback
  lastStatus,              \* the local `lastStatus` of the fallback
  lastPolled,              \* the local `lastProgress` of the fallback
  lExit,                   \* exit code passed to process.exit, 0 while running
  lPrinted,                \* argument of the last printError
  lDlStarted,              \* calls of downloadResults
  lDlReturned,             \* returns of downloadResults
  lFrames,                 \* history: inbound frames and socket errors so far
  nPolls,                  \* history: status queries so far
  lErrorCalls,             \* history: invocations of the error callback
  pollStarts,              \* history: calls of waitForCompletionFallback
  errAfterOpen,            \* history: error callback invoked after establishment,
                           \* before any terminal status
  lTerminal,               \* history: a terminal status has been seen
  lRenders,                \* history: assignments of the fallback spinner's text
  jobState,                \* status of the job on the remote service
  \* ---- download orchestrator (download.ts 60-155, 166-295; part_002 295-366)
  dPc,                     \* position inside the orchestrator
  dVariant,                \* which orchestrator runs: "command", "legacy", "auto"
  dFiles,                  \* results.files, the manifest the remote returns
  dPlan,                   \* the entries the loop iterates over
  dOverwrite,              \* options.overwrite
  dFileOpt,                \* options.file of the older download command
  dDisk,                   \* content of every path under the destination
  dDirs,                   \* directories that exist ("." is the destination)
  dIdx,                    \* position of the loop in dPlan
  downloadedCount,         \* the local `downloadedCount`
  downloadedDirs,          \* the local `downloadedDirs` of downloadResults
  dWarnings,               \* per-file warnings logged
  dReported,               \* outcome reported to the user
  dExit,                   \* exit code passed to process.exit, 0 while running
  dIndexCalls,             \* calls of generateReadmeIndex
  dIndexWarned,            \* generateReadmeIndex logged its warning
  dFetched,                \* history: positions whose fetch was issued
  dFailed,                 \* history: positions whose fetch or write failed
  dWritten,                \* history: positions written
  dPrompted,               \* history: the confirmation was asked
  dDeclined,               \* history: the user declined the confirmation
  dDiskAtStart,            \* history: dDisk when the orchestrator started
  dConfirmed,              \* history: the user confirmed the overwrite
  dRun,                    \* number of the current run of the orchestrator, 0 before the first
  dDiskPrev,               \* history: dDisk when the previous run ended
  dPrevClean,              \* history: the previous run wrote every entry and its index
  now,                     \* the clock read by new Date()
  dJobStatus,              \* status of the job on the remote service
  dRemoteFirst,            \* history: a remote query answered before the destination was prepared
  dPrepared,               \* history: the destination was created (and validated)
  dPrepareFailed,          \* history: the destination could not be prepared
  dDirsAtStart,            \* history: dDirs when the orchestrator started
  \* ---- destination folder name (utils.ts 62-64, download.ts 80-92, part_002 27-43)
  fCaller,                 \* who computed the name: "sanitizeFilename", "command", "scrape"
  fName,                   \* the name given (a sequence of characters)
  fFolder,                 \* the name computed
  \* ---- index text (download.ts 35-53, part_002 388-420)
  iBuilt,                  \* the index text has been built
  iListing,                \* mdFiles, in the order getAllMdFiles returned them
  iSections,               \* the sections of the index text, in their order
  \* ---- job update channel on its own (api.ts 181-223)
  chState,                 \* readyState of the socket; "none" before the call,
                           \* "failed" when createJobWebSocket threw
  chPromise,               \* the promise returned: pending, resolved, rejected
  chTimer,                 \* keepAliveInterval: none, running, cleared
  chClears,                \* calls of clearInterval
  chTicks,                 \* times the interval callback ran
  chPings,                 \* 'ping' frames sent
  chFrames,                \* inbound frames and socket errors so far
  chUpdates,               \* invocations of onUpdate
  chErrors,                \* invocations of onError
  chCloses,                \* invocations of onClose
  chOpened,                \* history: the socket has been open
  chClientCloses,          \* history: calls of ws.close() by the holder of the socket
  chLateCallbacks,         \* history: onUpdate/onError invocations after ws.close()
  chLatePings,             \* history: 'ping' frames sent after ws.close()
  chParseFails,            \* history: frames JSON.parse rejected
  chAfterMalformed         \* history: onUpdate invocations after such a frame

connVars == <<globalApiInstance, apiConnectionVerified, cPc, api, isHealthy,
              attempt, delay, connSpinner, cExit, ret, probes, fails, handles,
              nCalls, lastGood, goodFails, prevGood>>

scrapeVars == <<wsState, sPc, connectionSpinner, progressBar, currentSpinner,
                lastProgress, currentPhase, connectionMessageHandled, sExit,
                printed, dlStarted, dlReturned, completedCloses, nFrames, lastFrame,
                updateCalls, errorCalls, lastPhaseIn, inputMonotone,
                indicatorsMade, indicatorsRetired, activeAtInvoke, failedUpdate>>

legacyVars == <<lWs, lPc, spinner, pollSpinner, lastStatus, lastPolled, lRenders, lExit,
                lPrinted, lDlStarted, lDlReturned, lFrames, nPolls, lErrorCalls,
                pollStarts, errAfterOpen, lTerminal, jobState>>

dlVars == <<dPc, dVariant, dFiles, dPlan, dOverwrite, dFileOpt, dDisk, dDirs, dIdx,
            downloadedCount, downloadedDirs, dWarnings, dReported, dExit,
            dIndexCalls, dIndexWarned, dFetched, dFailed, dWritten, dPrompted,
            dDeclined, dDiskAtStart, dConfirmed,
                 dRun,
                 dDiskPrev,
                 dPrevClean,
                 now,
                 dJobStatus,
                 dRemoteFirst,
                 dPrepared,
                 dPrepareFailed,
                 dDirsAtStart>>

folderVars == <<fCaller, fName, fFolder>>

indexVars == <<iBuilt, iListing, iSections>>

chanVars == <<chState, chPromise, chTimer, chClears, chTicks, chPings, chFrames,
              chUpdates, chErrors, chCloses, chOpened, chClientCloses,
              chLateCallbacks, chLatePings, chParseFails,
              chAfterMalformed>>

vars == <<connVars, scrapeVars, legacyVars, dlVars, folderVars, indexVars, chanVars>>

(***************************************************************************)
(* middleware/api-connection: ensureApiConnection, resetApiConnection      *)
(***************************************************************************)
maxRetries == 12
initialDelay == 2000
delayCap == 10000

RetryDelayMutUncapped(k) == initialDelay * k

\* Math.min(initialDelay * attempt, 10000)
RetryDelay(k) == Min(initialDelay * k, delayCap)

\* The other components are at rest while this one runs.
ConnFrame ==
  UNCHANGED <<scrapeVars, legacyVars, dlVars, folderVars, indexVars, chanVars>>

ConnInit ==
  /\ globalApiInstance = 0
  /\ apiConnectionVerified = FALSE
  /\ cPc = "idle"
  /\ api = 0
  /\ isHealthy = FALSE
  /\ attempt = 0
  /\ delay = 0
  /\ connSpinner = None
  /\ cExit = 0
  /\ ret = 0
  /\ probes = 0
  /\ fails = 0
  /\ handles = 0
  /\ nCalls = 0
  /\ lastGood = 0
  /\ goodFails = 0
  /\ prevGood = 0

\* The guard of line 13.
Cached == globalApiInstance # 0 /\ apiConnectionVerified

CanCall == cPc \in {"idle", "returned"} /\ nCalls < MaxCalls

\* Lines 11-23: the cache check, else a new AimdocAPI and the spinner.
EnsureEnter ==
  /\ ConnFrame
  /\ CanCall
  /\ nCalls' = nCalls + 1
  /\ probes' = 0
  /\ fails' = 0
  /\ prevGood' = lastGood
  /\ IF Cached
       THEN /\ ret' = globalApiInstance
            /\ cPc' = "returned"
            /\ UNCHANGED <<api, handles, connSpinner, isHealthy, attempt, delay>>
       ELSE /\ api' = handles + 1
            /\ handles' = handles + 1
            /\ connSpinner' = "spinning"
            /\ isHealthy' = FALSE
            /\ attempt' = 0
            /\ delay' = 0
            /\ ret' = 0
            /\ cPc' = "quick"
  /\ UNCHANGED <<globalApiInstance, apiConnectionVerified, cExit, lastGood, goodFails>>

\* Line 26-34: the quick health check; healthCheck never throws (api.ts 225-232).
QuickProbe(ok) ==
  /\ ConnFrame
  /\ cPc = "quick"
  /\ isHealthy' = ok
  /\ probes' = probes + 1
  /\ fails' = IF ok THEN fails ELSE fails + 1
  /\ IF ok THEN cPc' = "finish" /\ attempt' = attempt
           ELSE cPc' = "retry" /\ attempt' = 1
  /\ UNCHANGED <<globalApiInstance, apiConnectionVerified, api, delay, connSpinner,
                 cExit, ret, handles, nCalls, lastGood, goodFails, prevGood>>

\* Line 45: after a failed attempt the loop waits and goes round again.
WaitsAgainMutOneMore(k) == k <= maxRetries
WaitsAgain(k) == k < maxRetries

\* Lines 35-50: one iteration of the retry loop up to its await of the wait.
RetryProbe(ok) ==
  /\ ConnFrame
  /\ cPc = "retry"
  /\ attempt <= maxRetries
  /\ isHealthy' = ok
  /\ probes' = probes + 1
  /\ fails' = IF ok THEN fails ELSE fails + 1
  /\ IF ok
       THEN cPc' = "finish" /\ UNCHANGED <<attempt, delay>>
       ELSE IF WaitsAgain(attempt)
              THEN cPc' = "wait" /\ delay' = RetryDelay(attempt) /\ attempt' = attempt
              ELSE cPc' = "finish" /\ attempt' = attempt + 1 /\ delay' = delay
  /\ UNCHANGED <<globalApiInstance, apiConnectionVerified, api, connSpinner, cExit,
                 ret, handles, nCalls, lastGood, goodFails, prevGood>>

\* Line 48: the timer fires, attempt++.
RetryWait ==
  /\ ConnFrame
  /\ cPc = "wait"
  /\ cPc' = "retry"
  /\ attempt' = attempt + 1
  /\ UNCHANGED <<globalApiInstance, apiConnectionVerified, api, isHealthy, delay,
                 connSpinner, cExit, ret, probes, fails, handles, nCalls, lastGood,
                 goodFails, prevGood>>

\* Line 53: the exhausted-retries test.
UnavailableMutNever == FALSE
Unavailable == ~isHealthy

CacheConnectionMutFlagOnly(h) ==
  /\ globalApiInstance' = globalApiInstance
  /\ apiConnectionVerified' = TRUE

\* Lines 60-62: cache the verified connection.
CacheConnectionMutSkip(h) == UNCHANGED <<globalApiInstance, apiConnectionVerified>>
CacheConnection(h) ==
  /\ globalApiInstance' = h
  /\ apiConnectionVerified' = TRUE

\* Lines 53-65.
Finish ==
  /\ ConnFrame
  /\ cPc = "finish"
  /\ IF Unavailable
       THEN /\ connSpinner' = "failed"
            /\ cExit' = 1
            /\ cPc' = "exited"
            /\ UNCHANGED <<globalApiInstance, apiConnectionVerified, ret, lastGood,
                           goodFails>>
       ELSE /\ connSpinner' = "succeeded"
            /\ CacheConnection(api)
            /\ ret' = api
            /\ lastGood' = api
            /\ goodFails' = fails
            /\ cPc' = "returned"
            /\ UNCHANGED cExit
  /\ UNCHANGED <<api, isHealthy, attempt, delay, probes, fails, handles, nCalls,
                 prevGood>>

\* Lines 78-81.
resetApiConnection ==
  /\ ConnFrame
  /\ cPc \in {"idle", "returned"}
  /\ globalApiInstance # 0 \/ apiConnectionVerified
  /\ globalApiInstance' = 0
  /\ apiConnectionVerified' = FALSE
  /\ lastGood' = 0
  /\ goodFails' = 0
  /\ UNCHANGED <<cPc, api, isHealthy, attempt, delay, connSpinner, cExit, ret,
                 probes, fails, handles, nCalls, prevGood>>

ConnNext ==
  \/ EnsureEnter
  \/ \E ok \in BOOLEAN : QuickProbe(ok)
  \/ \E ok \in BOOLEAN : RetryProbe(ok)
  \/ RetryWait
  \/ Finish
  \/ resetApiConnection

(***************************************************************************)
(* Job update channel: AimdocAPI.connectToJobWebSocket (api.ts 181-223)    *)
(* Scrape command: waitForCompletionWithWebSocket (part_002 148-293)       *)
(***************************************************************************)
Absent == "absent"

\* JobPhase, as the handler uses it (part_002 187-215).
Phases == {"discovering", "scraping", "converting", "downloading"}

\* The order of the phases (spec, section 3).
PhaseOrd(p) ==
  CASE p = "discovering" -> 1
    [] p = "scraping" -> 2
    [] p = "converting" -> 3
    [] p = "downloading" -> 4
    [] OTHER -> 0

\* Values of the optional fields of a WebSocketJobUpdate (types.ts 62-77).
ProgressVals ==
  { [pages_found |-> 0, pages_scraped |-> 0, files_created |-> 0],
    [pages_found |-> 2, pages_scraped |-> 1, files_created |-> 0],
    [pages_found |-> 2, pages_scraped |-> 2, files_created |-> 1] }
MessageVals == {Absent, "", "Connected to job j1", "working"}
ErrorVals == {Absent, "", "boom"}

StatusUpdates ==
  { u \in [type : {"status_update"}, phase : Phases \cup {Absent},
           progress : ProgressVals, status : {"running", "completed", "failed"},
           message : MessageVals, error : ErrorVals] :
      (u.error # Absent \/ u.message = "") => u.status = "failed" }

Pong ==
  [type |-> "pong", phase |-> Absent,
   progress |-> [pages_found |-> 0, pages_scraped |-> 0, files_created |-> 0],
   status |-> "running", message |-> Absent, error |-> Absent]

\* JavaScript truthiness of an optional string.
Truthy(x) == x # Absent /\ x # ""

\* a || b || c on optional strings (part_002 271).
OrElse(a, b, c) == IF Truthy(a) THEN a ELSE IF Truthy(b) THEN b ELSE c

\* update.message.includes('Connected to job') (part_002 168).
IncludesConnected(m) == m = "Connected to job j1"

NoBar == [exists |-> FALSE, active |-> FALSE, total |-> 0, value |-> 0]
NoSpinner == [exists |-> FALSE, state |-> "none", text |-> ""]
NewSpinner(t) == [exists |-> TRUE, state |-> "spinning", text |-> t]
NewBar(total, value) == [exists |-> TRUE, active |-> TRUE, total |-> total, value |-> value]

BarActive(b) == b.exists /\ b.active
SpinnerActive(sp) == sp.exists /\ sp.state = "spinning"
ActiveCount(b, sp) == (IF BarActive(b) THEN 1 ELSE 0) + (IF SpinnerActive(sp) THEN 1 ELSE 0)

\* `Converting to markdown... ${files_created} files created` (part_002 229).
ConvertingText(n) ==
  IF n = 0 THEN "Converting to markdown... 0 files created"
           ELSE "Converting to markdown... 1 files created"

ScrapeInit ==
  /\ wsState = "connecting"
  /\ sPc = "connecting"
  /\ connectionSpinner = "spinning"
  /\ progressBar = NoBar
  /\ currentSpinner = NoSpinner
  /\ lastProgress = [pages_scraped |-> 0, files_created |-> 0, pages_found |-> 0]
  /\ currentPhase = None
  /\ connectionMessageHandled = FALSE
  /\ sExit = 0
  /\ printed = None
  /\ dlStarted = 0
  /\ dlReturned = 0
  /\ completedCloses = 0
  /\ nFrames = 0
  /\ lastFrame = None
  /\ updateCalls = 0
  /\ errorCalls = 0
  /\ lastPhaseIn = None
  /\ inputMonotone = TRUE
  /\ indicatorsMade = 0
  /\ indicatorsRetired = 0
  /\ activeAtInvoke = FALSE
  /\ failedUpdate = Pong

ScrapeFrame ==
  UNCHANGED <<connVars, legacyVars, dlVars, folderVars, indexVars, chanVars>>

ScrapeRunning == sPc # "exited"

\* ws.close(): an open socket starts its closing handshake.
CloseSocket(st) == IF st = "open" THEN "closing" ELSE st

\* Line 173: const phase = update.phase || JobPhase.DISCOVERING
PhaseOf(u) == IF u.phase = Absent THEN "discovering" ELSE u.phase

\* Line 177: the test that decides a phase transition.
PhaseChangedMutForwardOnly(phase, cur) == PhaseOrd(phase) > PhaseOrd(cur)
PhaseChangedMutAlways(phase, cur) == TRUE
PhaseChanged(phase, cur) == phase # cur

SpinnerForMutScrapingToo(phase) ==
  IF phase = "converting" THEN NewSpinner("Converting pages to markdown...")
  ELSE IF phase = "downloading" THEN NewSpinner("Preparing files for download...")
  ELSE NewSpinner("Discovering sitemap and pages...")

\* Lines 186-222: the indicator installed for a new phase.
SpinnerFor(phase) ==
  CASE phase = "discovering" -> NewSpinner("Discovering sitemap and pages...")
    [] phase = "converting" -> NewSpinner("Converting pages to markdown...")
    [] phase = "downloading" -> NewSpinner("Preparing files for download...")
    [] OTHER -> NoSpinner
BarFor(phase, pr) ==
  IF phase = "scraping" /\ pr.pages_found > 0
    THEN NewBar(pr.pages_found, pr.pages_scraped)
    ELSE NoBar

\* Lines 226-232: refresh of the current indicator.
RefreshBar(phase, b, pr) ==
  IF phase = "scraping" /\ b.exists THEN [b EXCEPT !.value = pr.pages_scraped] ELSE b
RefreshSpinner(phase, b, sp, pr, msg) ==
  IF phase = "scraping" /\ b.exists THEN sp
  ELSE IF phase = "converting" /\ sp.exists
    THEN [sp EXCEPT !.text = ConvertingText(pr.files_created)]
  ELSE IF sp.exists /\ Truthy(msg) THEN [sp EXCEPT !.text = msg]
  ELSE sp

\* Lines 238-243: the completed branch finalizes the phase indicators.
FinalizeBarMutKeep(b) == b
FinalizeBar(b) == IF b.exists THEN [b EXCEPT !.active = FALSE] ELSE b

\* Lines 262-263: the socket is left alone until downloadResults has returned.
SocketAtInvokeMutClose(st) == CloseSocket(st)
SocketAtInvoke(st) == st

\* Line 271: the text handed to printError in the failed branch.
FailureTextMutMessageFirst(u) == OrElse(u.message, u.error, "Job failed with unknown error")
FailureText(u) == OrElse(u.error, u.message, "Job failed with unknown error")

\* Line 184: the phase rendered after a transition.
RenderedPhaseMutDefault(phase, cur) == IF phase = "downloading" THEN "discovering" ELSE phase
RenderedPhase(phase, cur) == phase

\* api.ts 190-192 and part_002 163: the socket opens, the establishment resolves.
SocketOpen ==
  /\ ScrapeFrame
  /\ ScrapeRunning
  /\ wsState = "connecting"
  /\ wsState' = "open"
  /\ sPc' = "listening"
  /\ UNCHANGED <<connectionSpinner, progressBar, currentSpinner, lastProgress,
                 currentPhase, connectionMessageHandled, sExit, printed, dlStarted,
                 dlReturned, completedCloses, nFrames, lastFrame, updateCalls,
                 errorCalls, lastPhaseIn, inputMonotone, indicatorsMade,
                 indicatorsRetired, activeAtInvoke, failedUpdate>>

IsStatusUpdateMutAny(u) == TRUE

\* Line 166: only an update of type status_update is acted upon.
IsStatusUpdate(u) == u.type = "status_update"

\* part_002 165-276: the update callback, run up to its await of
\* downloadResults.
HandleUpdate(u) ==
  LET phase == PhaseOf(u)
      pr == u.progress
      isStatus == IsStatusUpdate(u)
      greet == isStatus /\ Truthy(u.message) /\ IncludesConnected(u.message)
                 /\ ~connectionMessageHandled
      changed == isStatus /\ PhaseChanged(phase, currentPhase)
      bar1 == IF changed THEN BarFor(phase, pr) ELSE progressBar
      spin1 == IF changed THEN SpinnerFor(phase) ELSE currentSpinner
      bar2 == IF isStatus THEN RefreshBar(phase, bar1, pr) ELSE bar1
      spin2 == IF isStatus THEN RefreshSpinner(phase, bar1, spin1, pr, u.message) ELSE spin1
      completed == isStatus /\ u.status = "completed"
      failed == isStatus /\ u.status = "failed"
      bar3 == IF completed \/ failed THEN FinalizeBar(bar2) ELSE bar2
      spin3 == IF completed THEN NoSpinner
               ELSE IF failed /\ spin2.exists THEN [spin2 EXCEPT !.state = "failed"]
               ELSE spin2
      made == IF changed THEN ActiveCount(bar1, spin1) ELSE 0
      retired == (IF changed THEN ActiveCount(progressBar, currentSpinner) ELSE 0)
                 + (IF completed \/ failed
                      THEN ActiveCount(bar2, spin2) - ActiveCount(bar3, spin3) ELSE 0)
  IN
  /\ ScrapeRunning
  /\ wsState \in {"open", "closing"}
  /\ nFrames < MaxFrames
  /\ nFrames' = nFrames + 1
  /\ lastFrame' = IF u.type = "status_update" THEN u.status ELSE u.type
  /\ updateCalls' = updateCalls + 1
  /\ connectionMessageHandled' = (connectionMessageHandled \/ greet)
  /\ connectionSpinner' = IF greet THEN "succeeded" ELSE connectionSpinner
  /\ currentPhase' = IF changed THEN RenderedPhase(phase, currentPhase) ELSE currentPhase
  /\ lastProgress' =
       IF isStatus
         THEN [pages_scraped |-> pr.pages_scraped, files_created |-> pr.files_created,
               pages_found |-> pr.pages_found]
         ELSE lastProgress
  /\ progressBar' = bar3
  /\ currentSpinner' = spin3
  /\ indicatorsMade' = indicatorsMade + made
  /\ indicatorsRetired' = indicatorsRetired + retired
  /\ lastPhaseIn' = IF isStatus THEN phase ELSE lastPhaseIn
  /\ inputMonotone' =
       IF isStatus
         THEN inputMonotone /\ (lastPhaseIn = None \/ PhaseOrd(phase) >= PhaseOrd(lastPhaseIn))
         ELSE inputMonotone
  /\ dlStarted' = IF completed THEN dlStarted + 1 ELSE dlStarted
  /\ activeAtInvoke' = (activeAtInvoke \/ (completed /\ ActiveCount(bar3, spin3) > 0))
  /\ printed' = IF failed THEN FailureText(u) ELSE printed
  /\ failedUpdate' = IF failed THEN u ELSE failedUpdate
  /\ wsState' = IF failed THEN CloseSocket(wsState)
                ELSE IF completed THEN SocketAtInvoke(wsState)
                ELSE wsState
  /\ completedCloses' =
       IF completed /\ SocketAtInvoke(wsState) # wsState
         THEN completedCloses + 1 ELSE completedCloses
  /\ sExit' = IF failed THEN 1 ELSE sExit
  /\ sPc' = IF failed THEN "exited" ELSE sPc
  /\ UNCHANGED <<dlReturned, errorCalls>>

\* api.ts 194-197: a frame that parses is handed to the update callback.
MessageUpdate(u) == ScrapeFrame /\ HandleUpdate(u)

\* part_002 262-263: downloadResults returns to a suspended update callback,
\* which then closes the socket.
DownloadResultsReturn ==
  /\ ScrapeFrame
  /\ ScrapeRunning
  /\ dlReturned < dlStarted
  /\ dlReturned' = dlReturned + 1
  /\ wsState' = CloseSocket(wsState)
  /\ completedCloses' = completedCloses + 1
  /\ UNCHANGED <<sPc, connectionSpinner, progressBar, currentSpinner, lastProgress,
                 currentPhase, connectionMessageHandled, sExit, printed, dlStarted,
                 nFrames, lastFrame, updateCalls, errorCalls, lastPhaseIn,
                 inputMonotone, indicatorsMade, indicatorsRetired, activeAtInvoke,
                 failedUpdate>>

\* part_002 277-281: the error callback of the scrape command.
OnErrorExit ==
  /\ errorCalls' = errorCalls + 1
  /\ connectionSpinner' = "failed"
  /\ printed' = "WebSocket connection failed"
  /\ sExit' = 1
  /\ sPc' = "exited"

\* api.ts 194-201: a frame that JSON.parse rejects goes to the error callback.
MessageUnparseableMutSwallow ==
  /\ ScrapeFrame
  /\ ScrapeRunning
  /\ wsState \in {"open", "closing"}
  /\ nFrames < MaxFrames
  /\ nFrames' = nFrames + 1
  /\ lastFrame' = "unparseable"
  /\ UNCHANGED <<wsState, sPc, connectionSpinner, progressBar, currentSpinner,
                 lastProgress, currentPhase, connectionMessageHandled, sExit,
                 printed, dlStarted, dlReturned, completedCloses, updateCalls,
                 errorCalls, lastPhaseIn, inputMonotone, indicatorsMade,
                 indicatorsRetired, activeAtInvoke, failedUpdate>>

MessageUnparseable ==
  /\ ScrapeFrame
  /\ ScrapeRunning
  /\ wsState \in {"open", "closing"}
  /\ nFrames < MaxFrames
  /\ nFrames' = nFrames + 1
  /\ lastFrame' = "unparseable"
  /\ OnErrorExit
  /\ UNCHANGED <<wsState, progressBar, currentSpinner, lastProgress, currentPhase,
                 connectionMessageHandled, dlStarted, dlReturned, completedCloses,
                 updateCalls, lastPhaseIn, inputMonotone, indicatorsMade,
                 indicatorsRetired, activeAtInvoke, failedUpdate>>

\* api.ts 203-206: the socket reports an error, before or after it opened.
SocketError ==
  /\ ScrapeFrame
  /\ ScrapeRunning
  /\ wsState \in {"connecting", "open", "closing"}
  /\ nFrames < MaxFrames
  /\ nFrames' = nFrames + 1
  /\ lastFrame' = "error"
  /\ OnErrorExit
  /\ UNCHANGED <<wsState, progressBar, currentSpinner, lastProgress, currentPhase,
                 connectionMessageHandled, dlStarted, dlReturned, completedCloses,
                 updateCalls, lastPhaseIn, inputMonotone, indicatorsMade,
                 indicatorsRetired, activeAtInvoke, failedUpdate>>

\* part_002 288-292: the establishment throws without an error event
\* (createJobWebSocket throws inside the promise executor, api.ts 187-188).
ConnectThrows ==
  /\ ScrapeFrame
  /\ ScrapeRunning
  /\ wsState = "connecting"
  /\ nFrames = 0
  /\ wsState' = "closed"
  /\ connectionSpinner' = "failed"
  /\ printed' = "WebSocket unavailable"
  /\ sExit' = 1
  /\ sPc' = "exited"
  /\ UNCHANGED <<progressBar, currentSpinner, lastProgress, currentPhase,
                 connectionMessageHandled, dlStarted, dlReturned, completedCloses,
                 nFrames, lastFrame, updateCalls, errorCalls, lastPhaseIn,
                 inputMonotone, indicatorsMade, indicatorsRetired, activeAtInvoke,
                 failedUpdate>>

\* api.ts 208-210: the close event (closing handshake done, or the peer closed).
SocketClosed ==
  /\ ScrapeFrame
  /\ ScrapeRunning
  /\ wsState \in {"open", "closing"}
  /\ wsState' = "closed"
  /\ UNCHANGED <<sPc, connectionSpinner, progressBar, currentSpinner, lastProgress,
                 currentPhase, connectionMessageHandled, sExit, printed, dlStarted,
                 dlReturned, completedCloses, nFrames, lastFrame, updateCalls,
                 errorCalls, lastPhaseIn, inputMonotone, indicatorsMade,
                 indicatorsRetired, activeAtInvoke, failedUpdate>>

ScrapeNext ==
  \/ SocketOpen
  \/ \E u \in StatusUpdates \cup {Pong} : MessageUpdate(u)
  \/ DownloadResultsReturn
  \/ MessageUnparseable
  \/ SocketError
  \/ ConnectThrows
  \/ SocketClosed

(***************************************************************************)
(* Scrape command with polling fallback:                                   *)
(* waitForCompletionWithWebSocket (part_002 562-620) and                   *)
(* waitForCompletionFallback (part_002 750-801)                            *)
(***************************************************************************)
PlainText(t) == [t |-> t, pr |-> [pages_found |-> 0, pages_scraped |-> 0, files_created |-> 0]]
\* `Found ${pages_found} pages, scraped ${pages_scraped}, created ${files_created} files`
FoundText(pr) == [t |-> "Found", pr |-> pr]

\* status.progress of a JobStatusResponse (types.ts 26-30), which may be missing;
\* "null" is the initial value of the fallback's lastProgress.
ProgressOf(pr) ==
  [tag |-> "value", pages_found |-> pr.pages_found,
   pages_scraped |-> pr.pages_scraped, files_created |-> pr.files_created]
NullProgress == [tag |-> "null", pages_found |-> 0, pages_scraped |-> 0, files_created |-> 0]
NoProgress == [tag |-> "undefined", pages_found |-> 0, pages_scraped |-> 0, files_created |-> 0]

Snapshots ==
  [status : {"pending", "running", "completed", "failed"},
   progress : {NoProgress} \cup {ProgressOf(pr) : pr \in ProgressVals},
   error_message : {Absent, "boom"}]

LegacyInit ==
  /\ lWs = "connecting"
  /\ lPc = "connecting"
  /\ spinner = [state |-> "spinning", text |-> PlainText("Connecting to job...")]
  /\ pollSpinner = [state |-> "none", text |-> PlainText("")]
  /\ lastStatus = None
  /\ lastPolled = NullProgress
  /\ lExit = 0
  /\ lPrinted = None
  /\ lDlStarted = 0
  /\ lDlReturned = 0
  /\ lFrames = 0
  /\ nPolls = 0
  /\ lErrorCalls = 0
  /\ pollStarts = 0
  /\ errAfterOpen = FALSE
  /\ lTerminal = FALSE
  /\ lRenders = 0
  /\ jobState = "pending"

LegacyFrame ==
  UNCHANGED <<connVars, scrapeVars, dlVars, folderVars, indexVars, chanVars>>

LegacyRunning == lPc # "exited"

\* Lines 572-581: the text of the spinner for an update.
UpdateText(u) ==
  IF u.progress.pages_found > 0 \/ u.progress.pages_scraped > 0
       \/ u.progress.files_created > 0
    THEN FoundText(u.progress)
    ELSE PlainText(IF Truthy(u.message) THEN u.message ELSE "Processing...")

\* api.ts 190-192, part_002 612: the socket opens, the establishment resolves.
LSocketOpen ==
  /\ LegacyFrame
  /\ LegacyRunning
  /\ lPc = "connecting"
  /\ lWs = "connecting"
  /\ lWs' = "open"
  /\ lPc' = "listening"
  /\ spinner' = [spinner EXCEPT !.text = PlainText("Connected! Starting scrape...")]
  /\ UNCHANGED <<pollSpinner, lastStatus, lastPolled, lRenders, lExit, lPrinted, lDlStarted,
                 lDlReturned, lFrames, nPolls, lErrorCalls, pollStarts, errAfterOpen,
                 lTerminal, jobState>>

\* api.ts 194-197 with part_002 569-602: the update callback.
LMessageUpdate(u) ==
  LET isStatus == u.type = "status_update"
      completed == isStatus /\ u.status = "completed"
      failed == isStatus /\ u.status = "failed"
  IN
  /\ LegacyFrame
  /\ LegacyRunning
  /\ lWs \in {"open", "closing"}
  /\ lFrames < MaxFrames
  /\ lFrames' = lFrames + 1
  /\ spinner' =
       IF ~isStatus THEN spinner
       ELSE IF completed THEN [state |-> "succeeded", text |-> PlainText("Scraping completed successfully!")]
       ELSE IF failed THEN [state |-> "failed", text |-> PlainText("Scraping failed")]
       ELSE [spinner EXCEPT !.text = UpdateText(u)]
  /\ lDlStarted' = IF completed THEN lDlStarted + 1 ELSE lDlStarted
  /\ lPrinted' = IF failed THEN FailureText(u) ELSE lPrinted
  /\ lWs' = IF failed THEN CloseSocket(lWs) ELSE lWs
  /\ lExit' = IF failed THEN 1 ELSE lExit
  /\ lPc' = IF failed THEN "exited" ELSE lPc
  /\ lTerminal' = (lTerminal \/ completed \/ failed)
  /\ UNCHANGED <<pollSpinner, lastStatus, lastPolled, lRenders, lDlReturned, nPolls,
                 lErrorCalls, pollStarts, errAfterOpen, jobState>>

\* part_002 592-594: downloadResults returns to the update callback.
LDownloadResultsReturn ==
  /\ LegacyFrame
  /\ LegacyRunning
  /\ lPc = "listening"
  /\ lDlReturned < lDlStarted
  /\ lDlReturned' = lDlReturned + 1
  /\ lWs' = CloseSocket(lWs)
  /\ UNCHANGED <<lPc, spinner, pollSpinner, lastStatus, lastPolled, lRenders, lExit, lPrinted,
                 lDlStarted, lFrames, nPolls, lErrorCalls, pollStarts, errAfterOpen,
                 lTerminal, jobState>>

\* part_002 603-606: the error callback only logs; nothing else follows.
LOnError ==
  /\ lErrorCalls' = lErrorCalls + 1
  /\ UNCHANGED <<spinner, pollSpinner, lastStatus, lastPolled, lRenders, lExit, lPrinted,
                 lDlStarted, lDlReturned, nPolls, lTerminal>>

\* api.ts 198-200: a frame that JSON.parse rejects.
LMessageUnparseable ==
  /\ LegacyFrame
  /\ LegacyRunning
  /\ lWs \in {"open", "closing"}
  /\ lFrames < MaxFrames
  /\ lFrames' = lFrames + 1
  /\ LOnError
  /\ errAfterOpen' = (errAfterOpen \/ ~lTerminal)
  /\ UNCHANGED <<lWs, lPc, pollStarts, jobState>>

\* api.ts 203-206 after the socket opened: onError, and a reject that has no
\* effect on the settled promise; the socket that emitted the error is closing.
LSocketErrorAfterOpen ==
  /\ LegacyFrame
  /\ LegacyRunning
  /\ lWs \in {"open", "closing"}
  /\ lFrames < MaxFrames
  /\ lFrames' = lFrames + 1
  /\ LOnError
  /\ errAfterOpen' = (errAfterOpen \/ ~lTerminal)
  /\ lWs' = "closing"
  /\ UNCHANGED <<lPc, pollStarts, jobState>>

\* api.ts 203-206 before the socket opened, or a throw inside the promise
\* executor: the establishment rejects and part_002 613-618 starts the fallback.
LEstablishFails(viaErrorEvent) ==
  /\ LegacyFrame
  /\ LegacyRunning
  /\ lPc = "connecting"
  /\ lWs = "connecting"
  /\ lWs' = "closed"
  /\ lErrorCalls' = IF viaErrorEvent THEN lErrorCalls + 1 ELSE lErrorCalls
  /\ spinner' = [spinner EXCEPT !.text = PlainText("WebSocket unavailable, falling back to polling...")]
  /\ pollSpinner' = [state |-> "spinning", text |-> PlainText("Starting scrape...")]
  /\ pollStarts' = pollStarts + 1
  /\ lPc' = "polling"
  /\ UNCHANGED <<lastStatus, lastPolled, lRenders, lExit, lPrinted, lDlStarted, lDlReturned,
                 lFrames, nPolls, errAfterOpen, lTerminal, jobState>>

\* api.ts 208-210: the close event.
LSocketClosed ==
  /\ LegacyFrame
  /\ LegacyRunning
  /\ lWs \in {"open", "closing"}
  /\ lWs' = "closed"
  /\ UNCHANGED <<lPc, spinner, pollSpinner, lastStatus, lastPolled, lRenders, lExit, lPrinted,
                 lDlStarted, lDlReturned, lFrames, nPolls, lErrorCalls, pollStarts,
                 errAfterOpen, lTerminal, jobState>>

SnapshotChangedMutAlways(st) == TRUE

\* Line 761: the test that decides a re-render.
SnapshotChanged(st) == st.status # lastStatus \/ st.progress # lastPolled

\* Lines 762-768: the text for a snapshot.
SnapshotText(st) ==
  IF st.progress.tag = "value" /\ st.progress.pages_found > 0
    THEN FoundText([pages_found |-> st.progress.pages_found,
                    pages_scraped |-> st.progress.pages_scraped,
                    files_created |-> st.progress.files_created])
    ELSE PlainText("Processing...")

AfterSnapshotMutStopEarly(status) ==
  CASE status = "completed" -> "polldownload"
    [] status = "failed" -> "exited"
    [] status = "running" -> "done"
    [] OTHER -> "sleeping"

\* Lines 776-794: completed awaits downloadResults and breaks, failed exits,
\* any other status sleeps 2 s and queries again.
AfterSnapshot(status) ==
  CASE status = "completed" -> "polldownload"
    [] status = "failed" -> "exited"
    [] OTHER -> "sleeping"

\* Lines 756-794: one iteration of the loop whose status query answers.
PollIteration(st) ==
  LET changed == SnapshotChanged(st)
      sp1 == IF changed THEN [pollSpinner EXCEPT !.text = SnapshotText(st)] ELSE pollSpinner
  IN
  /\ LegacyRunning
  /\ lPc = "polling"
  /\ st.status = jobState
  /\ st.status \in {"pending", "running"} => nPolls < MaxPolls
  /\ nPolls' = nPolls + 1
  /\ lastStatus' = IF changed THEN st.status ELSE lastStatus
  /\ lastPolled' = IF changed THEN st.progress ELSE lastPolled
  /\ lRenders' = IF changed THEN lRenders + 1 ELSE lRenders
  /\ pollSpinner' =
       IF st.status = "completed"
         THEN [state |-> "succeeded", text |-> PlainText("Scraping completed successfully!")]
       ELSE IF st.status = "failed"
         THEN [state |-> "failed", text |-> PlainText("Scraping failed")]
       ELSE sp1
  /\ lDlStarted' = IF st.status = "completed" THEN lDlStarted + 1 ELSE lDlStarted
  /\ lPrinted' = IF st.status = "failed"
                   THEN OrElse(st.error_message, Absent, "Job failed with unknown error")
                   ELSE lPrinted
  /\ lExit' = IF st.status = "failed" THEN 1 ELSE lExit
  /\ lPc' = AfterSnapshot(st.status)
  /\ lTerminal' = (lTerminal \/ st.status \in {"completed", "failed"})
  /\ UNCHANGED <<lWs, spinner, lDlReturned, lFrames, lErrorCalls, pollStarts,
                 errAfterOpen, jobState>>

\* Line 758: the status query of the fallback answers.
PollAnswer(st) == LegacyFrame /\ PollIteration(st)

\* Lines 795-799: the catch ends the process; the while loop is not resumed.
AfterThrowMutRetry == "sleeping"
AfterThrow == "exited"

\* Lines 795-799: the status query throws.
PollThrows ==
  /\ LegacyFrame
  /\ LegacyRunning
  /\ lPc = "polling"
  /\ nPolls < MaxPolls
  /\ nPolls' = nPolls + 1
  /\ pollSpinner' = [state |-> "failed", text |-> PlainText("Error checking job status")]
  /\ lPrinted' = "Failed to check job status"
  /\ lExit' = 1
  /\ lPc' = AfterThrow
  /\ UNCHANGED <<lWs, spinner, lastStatus, lastPolled, lRenders, lDlStarted, lDlReturned,
                 lFrames, lErrorCalls, pollStarts, errAfterOpen, lTerminal,
                 jobState>>

\* Line 794: the 2 s timer fires.
PollWake ==
  /\ LegacyFrame
  /\ LegacyRunning
  /\ lPc = "sleeping"
  /\ lPc' = "polling"
  /\ UNCHANGED <<lWs, spinner, pollSpinner, lastStatus, lastPolled, lRenders, lExit, lPrinted,
                 lDlStarted, lDlReturned, lFrames, nPolls, lErrorCalls, pollStarts,
                 errAfterOpen, lTerminal, jobState>>

\* Lines 783-784: downloadResults returns, the loop breaks.
PollDownloadReturn ==
  /\ LegacyFrame
  /\ LegacyRunning
  /\ lPc = "polldownload"
  /\ lDlReturned' = lDlReturned + 1
  /\ lPc' = "done"
  /\ UNCHANGED <<lWs, spinner, pollSpinner, lastStatus, lastPolled, lRenders, lExit, lPrinted,
                 lDlStarted, lFrames, nPolls, lErrorCalls, pollStarts, errAfterOpen,
                 lTerminal, jobState>>

\* The remote service moves the job on: pending, running, then completed or
\* failed (types.ts 13-18).
JobAdvance ==
  /\ LegacyFrame
  /\ \/ jobState = "pending" /\ jobState' = "running"
     \/ jobState = "running" /\ jobState' \in {"completed", "failed"}
  /\ UNCHANGED <<lWs, lPc, spinner, pollSpinner, lastStatus, lastPolled, lRenders, lExit,
                 lPrinted, lDlStarted, lDlReturned, lFrames, nPolls, lErrorCalls,
                 pollStarts, errAfterOpen, lTerminal>>

\* The status query of the current iteration answers.
PollReturns == \E st \in Snapshots : PollAnswer(st)

LegacyNext ==
  \/ LSocketOpen
  \/ \E u \in StatusUpdates \cup {Pong} : LMessageUpdate(u)
  \/ LDownloadResultsReturn
  \/ LMessageUnparseable
  \/ LSocketErrorAfterOpen
  \/ \E viaErrorEvent \in BOOLEAN : LEstablishFails(viaErrorEvent)
  \/ LSocketClosed
  \/ PollReturns
  \/ PollThrows
  \/ PollWake
  \/ PollDownloadReturn
  \/ JobAdvance

(***************************************************************************)
(* Download orchestrator: the download command (download.ts 60-155), the    *)
(* older download command (download.ts 166-295) and downloadResults of the *)
(* scrape command (part_002 295-366)                                       *)
(***************************************************************************)
Paths == {"a.md", "d/b.md", "README.md"}

\* path.dirname of an entry, relative to the destination.
DirOf(f) == IF f = "d/b.md" THEN "d" ELSE "."

\* The manifests the remote can return: up to MaxFiles distinct entries.
Manifests ==
  {m \in UNION {[1..n -> Paths] : n \in 0..MaxFiles} :
     \A i, j \in 1..Len(m) : i # j => m[i] # m[j]}

FileOpts == {Absent, "b.md", "zzz"}

\* download.ts 193-195: f === opt || f.endsWith('/' + opt) || f.includes(opt);
\* the third test contains the first two.
Includes(f, opt) == f = opt \/ (opt = "b.md" /\ f = "d/b.md")

\* Array.prototype.find: the first matching entry, 0 when there is none.
FindIndex(files, opt) ==
  IF \E i \in 1..Len(files) : Includes(files[i], opt)
    THEN CHOOSE i \in 1..Len(files) :
           /\ Includes(files[i], opt)
           /\ \A j \in 1..(i - 1) : ~Includes(files[j], opt)
    ELSE 0

DownloadInit ==
  /\ dPc = "idle"
  /\ dVariant = None
  /\ dFiles = <<>>
  /\ dPlan = <<>>
  /\ dOverwrite = FALSE
  /\ dFileOpt = Absent
  /\ dDisk = [f \in Paths |-> None]
  /\ dDirs = {}
  /\ dIdx = 0
  /\ downloadedCount = 0
  /\ downloadedDirs = {}
  /\ dWarnings = 0
  /\ dReported = None
  /\ dExit = 0
  /\ dIndexCalls = 0
  /\ dIndexWarned = FALSE
  /\ dFetched = {}
  /\ dFailed = {}
  /\ dWritten = {}
  /\ dPrompted = FALSE
  /\ dDeclined = FALSE
  /\ dDiskAtStart = [f \in Paths |-> None]
  /\ dDirsAtStart = {}
  /\ dPrepareFailed = FALSE
  /\ dPrepared = FALSE
  /\ dRemoteFirst = FALSE
  /\ dJobStatus = None
  /\ now = 0
  /\ dPrevClean = FALSE
  /\ dDiskPrev = [f \in Paths |-> None]
  /\ dRun = 0
  /\ dConfirmed = FALSE

DownloadFrame ==
  UNCHANGED <<connVars, scrapeVars, legacyVars, folderVars, indexVars, chanVars>>

\* The first await of each orchestrator: the status query (download.ts 75),
\* the manifest query (download.ts 181) or ensureDir (part_002 304).
EntryPc(variant) ==
  CASE variant = "command" -> "status"
    [] variant = "legacy" -> "manifest"
    [] OTHER -> "prepare"

\* JobStatus (types.ts 13-18).
JobStatuses == {"pending", "running", "completed", "failed"}

\* The action callback or downloadResults is entered, on a local disk that
\* holds the files `existing`; the remote will return `files` for a job whose
\* status is `js` (downloadResults is called on completed only, part_002
\* 236-262, 584-592, 776-783).
DownloadStart ==
  /\ DownloadFrame
  /\ dPc = "idle"
  /\ \E variant \in {"command", "legacy", "auto"}, files \in Manifests,
        ow \in BOOLEAN, fopt \in FileOpts, existing \in SUBSET Paths,
        rootExists \in BOOLEAN, js \in JobStatuses :
       LET disk == [f \in Paths |-> IF f \in existing THEN "old" ELSE None]
           dirs == {DirOf(f) : f \in existing}
                     \cup (IF existing # {} \/ rootExists THEN {"."} ELSE {})
       IN
       /\ variant = "auto" => (~ow /\ js = "completed")
       /\ variant # "legacy" => fopt = Absent
       /\ existing # {} => rootExists
       /\ dVariant' = variant
       /\ dJobStatus' = js
       /\ dFiles' = files
       /\ dOverwrite' = ow
       /\ dFileOpt' = fopt
       /\ dDisk' = disk
       /\ dDirs' = dirs
       /\ dDiskAtStart' = disk
       /\ dDirsAtStart' = dirs
       /\ dPc' = EntryPc(variant)
  /\ dRun' = 1
  /\ UNCHANGED <<dPlan, dIdx, downloadedCount, downloadedDirs, dWarnings, dReported,
                 dExit, dIndexCalls, dIndexWarned, dFetched, dFailed, dWritten,
                 dPrompted, dConfirmed, dDiskPrev, dPrevClean, now, dRemoteFirst,
                 dPrepared, dPrepareFailed, dDeclined>>

\* The outer catch: download.ts 147-151 and 288-291 exit, part_002 361-365
\* reports and returns.
OuterCatch ==
  /\ dReported' = "unexpected"
  /\ dExit' = IF dVariant = "auto" THEN 0 ELSE 1
  /\ dPc' = IF dVariant = "auto" THEN "returned" ELSE "exited"

\* download.ts 74-80: the status query of the download command returns.
StatusReturns(res) ==
  /\ DownloadFrame
  /\ dPc = "status"
  /\ CASE res = "summary" ->
            /\ dPc' = "manifest"
            /\ UNCHANGED <<dReported, dExit>>
       [] res = "nosummary" ->
            /\ dReported' = "nodetails"
            /\ dExit' = 1
            /\ dPc' = "exited"
       [] OTHER -> OuterCatch
  /\ dRemoteFirst' = (dRemoteFirst \/ ~dPrepared)
  /\ UNCHANGED <<dVariant, dFiles, dPlan, dOverwrite, dFileOpt, dDisk, dDirs, dIdx,
                 downloadedCount, downloadedDirs, dWarnings, dIndexCalls,
                 dIndexWarned, dFetched, dFailed, dWritten, dPrompted, dDeclined,
                 dDiskAtStart, dConfirmed, dRun, dDiskPrev, dPrevClean, now,
                 dJobStatus, dPrepared, dPrepareFailed, dDirsAtStart>>

\* download.ts 84-89, 181-205, part_002 310-321: the manifest query returns.
ManifestReturns(ok) ==
  LET k == FindIndex(dFiles, dFileOpt)
      plan == IF dVariant = "legacy" /\ dFileOpt # Absent /\ k > 0
                THEN <<dFiles[k]>> ELSE dFiles
  IN
  /\ DownloadFrame
  /\ dPc = "manifest"
  /\ IF ~ok THEN OuterCatch /\ UNCHANGED <<dPlan, dIdx>>
     ELSE IF Len(dFiles) = 0
       THEN /\ dReported' = "empty"
            /\ dPc' = "returned"
            /\ UNCHANGED <<dPlan, dIdx, dExit>>
     ELSE IF dVariant = "legacy" /\ dFileOpt # Absent /\ k = 0
       THEN /\ dReported' = "notfound"
            /\ dExit' = 1
            /\ dPc' = "exited"
            /\ UNCHANGED <<dPlan, dIdx>>
     ELSE /\ dPlan' = plan
          /\ dPc' = IF dVariant = "auto" THEN "fetch" ELSE "prepare"
          /\ dIdx' = IF dVariant = "auto" THEN 1 ELSE dIdx
          /\ UNCHANGED <<dReported, dExit>>
  /\ dRemoteFirst' = (dRemoteFirst \/ ~dPrepared)
  /\ UNCHANGED <<dVariant, dFiles, dOverwrite, dFileOpt, dDisk, dDirs,
                 downloadedCount, downloadedDirs, dWarnings, dIndexCalls,
                 dIndexWarned, dFetched, dFailed, dWritten, dPrompted, dDeclined,
                 dDiskAtStart, dConfirmed, dRun, dDiskPrev, dPrevClean, now,
                 dJobStatus, dPrepared, dPrepareFailed, dDirsAtStart>>

\* download.ts 92-98, 208-209, part_002 303-304: the destination directory is
\* created (and, in the download command, validated).
PrepareDir(res) ==
  /\ DownloadFrame
  /\ dPc = "prepare"
  /\ res = "invalid" => dVariant = "command"
  /\ dDirs' = IF res = "throws" THEN dDirs ELSE dDirs \cup {"."}
  /\ CASE res = "ok" ->
            /\ dPc' = IF dVariant = "auto" THEN "manifest" ELSE "probe"
            /\ UNCHANGED <<dReported, dExit>>
       [] res = "invalid" ->
            /\ dReported' = "notwritable"
            /\ dExit' = 1
            /\ dPc' = "exited"
       [] OTHER -> OuterCatch
  /\ dPrepared' = (res = "ok")
  /\ dPrepareFailed' = (res # "ok")
  /\ UNCHANGED <<dVariant, dFiles, dPlan, dOverwrite, dFileOpt, dDisk, dIdx,
                 downloadedCount, downloadedDirs, dWarnings, dIndexCalls,
                 dIndexWarned, dFetched, dFailed, dWritten, dPrompted, dDeclined,
                 dDiskAtStart, dConfirmed, dRun, dDiskPrev, dPrevClean, now,
                 dJobStatus, dRemoteFirst, dDirsAtStart>>

\* download.ts 101-103, 212-221: existingFiles.length > 0 with overwrite unset.
NeedsConfirmation ==
  /\ ~dOverwrite
  /\ \E i \in 1..Len(dPlan) : dDisk[dPlan[i]] # None

\* download.ts 100-104, 211-224: the planned paths are probed.
ProbeExisting ==
  /\ DownloadFrame
  /\ dPc = "probe"
  /\ dPc' = IF NeedsConfirmation THEN "prompt" ELSE "fetch"
  /\ dIdx' = IF NeedsConfirmation THEN dIdx ELSE 1
  /\ dPrompted' = NeedsConfirmation
  /\ UNCHANGED <<dVariant, dFiles, dPlan, dOverwrite, dFileOpt, dDisk, dDirs,
                 downloadedCount, downloadedDirs, dWarnings, dReported, dExit,
                 dIndexCalls, dIndexWarned, dFetched, dFailed, dWritten, dDeclined,
                 dDiskAtStart, dConfirmed, dRun, dDiskPrev, dPrevClean, now,
                 dJobStatus, dRemoteFirst, dPrepared, dPrepareFailed, dDirsAtStart>>

ProceedAfterAnswerMutAlways(ans) == ans # "throws"

\* download.ts 113, 234: the download goes on only after a confirmation.
ProceedAfterAnswer(ans) == ans = "yes"

\* download.ts 105-117, 225-237: inquirer.prompt returns.
PromptAnswer(ans) ==
  /\ DownloadFrame
  /\ dPc = "prompt"
  /\ dDeclined' = (ans = "no")
  /\ dConfirmed' = (ans = "yes")
  /\ IF ans = "throws" THEN OuterCatch /\ UNCHANGED dIdx
     ELSE IF ProceedAfterAnswer(ans)
       THEN /\ dPc' = "fetch"
            /\ dIdx' = 1
            /\ UNCHANGED <<dReported, dExit>>
     ELSE /\ dReported' = "cancelled"
          /\ dPc' = "returned"
          /\ UNCHANGED <<dIdx, dExit>>
  /\ UNCHANGED <<dVariant, dFiles, dPlan, dOverwrite, dFileOpt, dDisk, dDirs,
                 downloadedCount, downloadedDirs, dWarnings, dIndexCalls,
                 dIndexWarned, dFetched, dFailed, dWritten, dPrompted, dDiskAtStart,
                 dRun, dDiskPrev, dPrevClean, now, dJobStatus, dRemoteFirst,
                 dPrepared, dPrepareFailed, dDirsAtStart>>

AfterFailureMutAbort(i, n) == n + 1

\* download.ts 132-134, 259-261, part_002 346-348: the catch ends the
\* iteration, the loop goes on with the next entry.
AfterFailure(i, n) == i + 1

NextEntryMutSkip(i) == i + 2

\* download.ts 124, 245, part_002 324: `for (const file of files)` with every
\* await inside the body: the entry after the one just written.
NextEntry(i) == i + 1

LoopReportMutAnySuccess(count, total) == IF count > 0 THEN "all" ELSE "partial"

\* download.ts 137-141, 264-268, part_002 351-355: the outcome reported when
\* the loop has ended.
LoopReport(count, total) == IF count = total THEN "all" ELSE "partial"

InvokesIndexMutFullOnly(count) == dVariant # "legacy" /\ count = Len(dPlan)

\* download.ts 146, part_002 360: generateReadmeIndex(finalDir) follows the
\* loop whatever the count; the older download command (download.ts 264-287)
\* has no such call.
InvokesIndex(count) == dVariant # "legacy"

\* download.ts 124, 137-146, 245, 264-270, part_002 324, 351-360: the loop
\* moves to position `next`, or ends and reports.
Advance(next, count) ==
  IF next > Len(dPlan)
    THEN /\ dReported' = LoopReport(count, Len(dPlan))
         /\ dPc' = IF InvokesIndex(count) THEN "index" ELSE "returned"
         /\ dIndexCalls' = IF InvokesIndex(count) THEN dIndexCalls + 1 ELSE dIndexCalls
         /\ dIdx' = next
    ELSE /\ dPc' = "fetch"
         /\ dIdx' = next
         /\ UNCHANGED <<dReported, dIndexCalls>>

\* download.ts 126, 247, part_002 327: api.downloadFile returns or throws.
FetchDone(ok) ==
  /\ DownloadFrame
  /\ dPc = "fetch"
  /\ dFetched' = dFetched \cup {dIdx}
  /\ IF ok
       THEN /\ dPc' = "write"
            /\ UNCHANGED <<dIdx, dWarnings, dFailed, dReported, dIndexCalls>>
       ELSE /\ dWarnings' = dWarnings + 1
            /\ dFailed' = dFailed \cup {dIdx}
            /\ Advance(AfterFailure(dIdx, Len(dPlan)), downloadedCount)
  /\ UNCHANGED <<dVariant, dFiles, dPlan, dOverwrite, dFileOpt, dDisk, dDirs,
                 downloadedCount, downloadedDirs, dExit, dIndexWarned, dWritten,
                 dPrompted, dDeclined, dDiskAtStart, dConfirmed, dRun, dDiskPrev,
                 dPrevClean, now, dJobStatus, dRemoteFirst, dPrepared,
                 dPrepareFailed, dDirsAtStart>>

\* download.ts 127-134, 248-261, part_002 331-348: ensureDir and writeFile of
\* the current entry.
WriteDone(outcome) ==
  LET f == dPlan[dIdx]
      d == DirOf(f)
      ensures == dVariant # "auto" \/ d \notin downloadedDirs
  IN
  /\ DownloadFrame
  /\ dPc = "write"
  /\ outcome = "dirFail" => ensures
  /\ dDirs' = IF ensures /\ outcome # "dirFail" THEN dDirs \cup {d} ELSE dDirs
  /\ downloadedDirs' = IF dVariant = "auto" /\ outcome # "dirFail"
                         THEN downloadedDirs \cup {d} ELSE downloadedDirs
  /\ IF outcome = "ok"
       THEN /\ dDisk' = [dDisk EXCEPT ![f] = "remote"]
            /\ downloadedCount' = downloadedCount + 1
            /\ dWritten' = dWritten \cup {dIdx}
            /\ Advance(NextEntry(dIdx), downloadedCount + 1)
            /\ UNCHANGED <<dWarnings, dFailed>>
       ELSE /\ dWarnings' = dWarnings + 1
            /\ dFailed' = dFailed \cup {dIdx}
            /\ Advance(AfterFailure(dIdx, Len(dPlan)), downloadedCount)
            /\ UNCHANGED <<dDisk, downloadedCount, dWritten>>
  /\ UNCHANGED <<dVariant, dFiles, dPlan, dOverwrite, dFileOpt, dExit, dIndexWarned,
                 dFetched, dPrompted, dDeclined, dDiskAtStart, dConfirmed, dRun,
                 dDiskPrev, dPrevClean, now, dJobStatus, dRemoteFirst, dPrepared,
                 dPrepareFailed, dDirsAtStart>>

\* download.ts 28, part_002 381: the markdown files the generator lists.
MdFiles == {f \in Paths : f # "README.md" /\ dDisk[f] # None}

\* download.ts 45-51, part_002 399-418: the index text; the one of the scrape
\* command carries `Generated on ${new Date().toISOString()}`.
ReadmeContent(t) ==
  IF dVariant = "auto" THEN "generated@" \o ToString(t) ELSE "generated"

AfterIndexMutRaise(ok) == IF ok THEN "returned" ELSE "raised"

\* download.ts 55-57, part_002 422-425: the generator catches whatever its
\* body throws and only warns, so it always returns to its caller.
AfterIndex(ok) == "returned"

\* download.ts 10-58, part_002 368-426: generateReadmeIndex returns.
IndexReturns(ok) ==
  LET skips == dVariant = "command" /\ (dDisk["README.md"] # None \/ (ok /\ MdFiles = {}))
  IN
  /\ DownloadFrame
  /\ dPc = "index"
  /\ (dVariant = "command" /\ dDisk["README.md"] # None) => ok
  /\ \E t \in now..Min(now + 1, MaxClock) :
       /\ now' = t
       /\ dDisk' = IF ok /\ ~skips
                     THEN [dDisk EXCEPT !["README.md"] = ReadmeContent(t)]
                     ELSE dDisk
  /\ dIndexWarned' = ~ok
  /\ IF AfterIndex(ok) = "raised"
       THEN OuterCatch
       ELSE dPc' = "returned" /\ UNCHANGED <<dReported, dExit>>
  /\ UNCHANGED <<dVariant, dFiles, dPlan, dOverwrite, dFileOpt, dDirs, dIdx,
                 downloadedCount, downloadedDirs, dWarnings, dIndexCalls, dFetched,
                 dFailed, dWritten, dPrompted, dDeclined, dDiskAtStart, dConfirmed,
                 dRun, dDiskPrev, dPrevClean, dJobStatus, dRemoteFirst, dPrepared,
                 dPrepareFailed, dDirsAtStart>>

\* The run wrote every entry of the manifest and its index without a failure.
RunClean == dPc = "returned" /\ dReported = "all" /\ ~dIndexWarned

\* The orchestrator is entered again, with the same options, for the same job
\* (a second `aimdoc download`, or downloadResults called again by the scrape
\* command), on the disk the previous run left; the job is a completed one.
DownloadAgain ==
  /\ DownloadFrame
  /\ dPc = "returned"
  /\ dRun < MaxRuns
  /\ dJobStatus = "completed"
  /\ dRun' = dRun + 1
  /\ dDiskPrev' = dDisk
  /\ dPrevClean' = RunClean
  /\ dDiskAtStart' = dDisk
  /\ dDirsAtStart' = dDirs
  /\ dPc' = EntryPc(dVariant)
  /\ dPlan' = <<>>
  /\ dIdx' = 0
  /\ downloadedCount' = 0
  /\ downloadedDirs' = {}
  /\ dWarnings' = 0
  /\ dReported' = None
  /\ dIndexCalls' = 0
  /\ dIndexWarned' = FALSE
  /\ dFetched' = {}
  /\ dFailed' = {}
  /\ dWritten' = {}
  /\ dPrompted' = FALSE
  /\ dDeclined' = FALSE
  /\ dConfirmed' = FALSE
  /\ dRemoteFirst' = FALSE
  /\ dPrepared' = FALSE
  /\ dPrepareFailed' = FALSE
  /\ UNCHANGED <<dVariant, dFiles, dOverwrite, dFileOpt, dDisk, dDirs, dExit, now,
                 dJobStatus>>

DownloadNext ==
  \/ DownloadStart
  \/ \E res \in {"summary", "nosummary", "throws"} : StatusReturns(res)
  \/ \E ok \in BOOLEAN : ManifestReturns(ok)
  \/ \E res \in {"ok", "invalid", "throws"} : PrepareDir(res)
  \/ ProbeExisting
  \/ \E ans \in {"yes", "no", "throws"} : PromptAnswer(ans)
  \/ \E ok \in BOOLEAN : FetchDone(ok)
  \/ \E outcome \in {"ok", "dirFail", "writeFail"} : WriteDone(outcome)
  \/ \E ok \in BOOLEAN : IndexReturns(ok)
  \/ DownloadAgain

(***************************************************************************)
(* Destination folder name: sanitizeFilename (utils.ts 62-64) and the two  *)
(* places that choose the folder (download.ts 80-92, part_002 27-43)       *)
(***************************************************************************)
LowerCase == {"a", "b", "c", "d", "e", "f", "g", "h", "i", "j", "k", "l", "m",
              "n", "o", "p", "q", "r", "s", "t", "u", "v", "w", "x", "y", "z"}
UpperCase == {"A", "B", "C", "D", "E", "F", "G", "H", "I", "J", "K", "L", "M",
              "N", "O", "P", "Q", "R", "S", "T", "U", "V", "W", "X", "Y", "Z"}
Digits == {"0", "1", "2", "3", "4", "5", "6", "7", "8", "9"}

\* The characters the names are drawn from: kept ones, the replacement
\* itself, a blank, a path separator and a non-ASCII letter.
Chars == {"a", "Z", "0", ".", "-", "_", " ", "/", "é"}

Names == UNION {[1..n -> Chars] : n \in 0..MaxLen}

\* A job identifier as the remote issues it.
JobIds == {<<"a", "-", "0">>}

\* The class [^a-z0-9.-] under the flag i: a-z also matches A-Z.
InClass(c) == c \notin (LowerCase \cup UpperCase \cup Digits \cup {".", "-"})

sanitizeFilenameMutFirstOnly(filename) ==
  [i \in 1..Len(filename) |->
     IF InClass(filename[i]) /\ \A j \in 1..(i - 1) : ~InClass(filename[j])
       THEN "_" ELSE filename[i]]

\* filename.replace(/[^a-z0-9.-]/gi, '_')
sanitizeFilename(filename) ==
  [i \in 1..Len(filename) |-> IF InClass(filename[i]) THEN "_" ELSE filename[i]]

FolderInit ==
  /\ fCaller = None
  /\ fName = <<>>
  /\ fFolder = <<>>

FolderFrame ==
  UNCHANGED <<connVars, scrapeVars, legacyVars, dlVars, indexVars, chanVars>>

\* utils.ts 62-64: one call of sanitizeFilename.
SanitizeCall ==
  /\ fCaller = None
  /\ FolderFrame
  /\ fCaller' = "sanitizeFilename"
  /\ \E name \in Names :
       /\ fName' = name
       /\ fFolder' = sanitizeFilename(name)

\* download.ts 80: sanitizeFilename(status.request?.name || jobId)
CommandFolder(name, jobId) == sanitizeFilename(IF name # <<>> THEN name ELSE jobId)

\* download.ts 80-92: the download command resolves its destination folder.
CommandResolve ==
  /\ fCaller = None
  /\ FolderFrame
  /\ fCaller' = "command"
  /\ \E name \in Names, jobId \in JobIds :
       /\ fName' = name
       /\ fFolder' = CommandFolder(name, jobId)

\* part_002 27-43, 303: the scrape command passes scrapeRequest.name (a
\* non-empty --name option or prompt answer) on as the folder name.
ScrapeResolve ==
  /\ fCaller = None
  /\ FolderFrame
  /\ fCaller' = "scrape"
  /\ \E name \in Names :
       /\ name # <<>>
       /\ fName' = name
       /\ fFolder' = name

FolderNext ==
  \/ SanitizeCall
  \/ CommandResolve
  \/ ScrapeResolve

(***************************************************************************)
(* Index text: the grouping and ordering of generateReadmeIndex            *)
(* (download.ts 35-53, part_002 388-420)                                   *)
(***************************************************************************)
\* Directory names ("." is the destination root) and file names without
\* their extension, in the order localeCompare gives them.
Collation == <<".", "a", "api", "b", "c", "sub">>
DirNames == {".", "api", "sub"}
BaseNames == {"a", "b", "c"}

CollationRank(x) == CHOOSE k \in 1..Len(Collation) : Collation[k] = x

\* a.localeCompare(b) < 0
LocaleBefore(a, b) == CollationRank(a) < CollationRank(b)

MdEntries == [dir : DirNames, base : BaseNames]

\* What getAllMdFiles can return: fs.readdir gives the entries of a directory
\* in no specified order, and a sub-directory is listed in one piece at the
\* place of its entry.
Listings ==
  {l \in UNION {[1..n -> MdEntries] : n \in 0..MaxEntries} :
     /\ \A i, j \in 1..Len(l) : i # j => l[i] # l[j]
     /\ \A i, j \in 1..Len(l) :
          (i < j /\ l[i].dir = l[j].dir /\ l[i].dir # ".")
             => \A k \in i..j : l[k].dir = l[i].dir}

\* Lines 38-43 / 391-396: structure[dir] collects the names of one directory
\* in the order of the listing.
LinksOf(listing, dir) ==
  LET idx == {i \in 1..Len(listing) : listing[i].dir = dir}
      F[k \in 0..Len(listing)] ==
        IF k = 0 THEN <<>>
        ELSE IF k \in idx THEN Append(F[k - 1], listing[k].base) ELSE F[k - 1]
  IN F[Len(listing)]

\* Lines 45-46 / 405-406: Object.entries(structure).sort by localeCompare of
\* the directory.
SortedKeys(listing, keys) ==
  LET S[n \in 0..Cardinality(keys)] ==
        IF n = 0 THEN <<>>
        ELSE Append(S[n - 1],
               CHOOSE d \in keys :
                 /\ \A m \in 1..(n - 1) : S[n - 1][m] # d
                 /\ \A e \in keys : (\A m \in 1..(n - 1) : S[n - 1][m] # e)
                                       => ~LocaleBefore(e, d))
  IN S[Cardinality(keys)]

\* Lines 45-51 / 405-414: one section per directory, the root one without a
\* header, each with its links in the order of structure[dir].
IndexSections(listing) ==
  LET keys == {listing[i].dir : i \in 1..Len(listing)}
      order == SortedKeys(listing, keys)
  IN [k \in 1..Len(order) |-> [dir |-> order[k], links |-> LinksOf(listing, order[k])]]

IndexInit ==
  /\ iBuilt = FALSE
  /\ iListing = <<>>
  /\ iSections = <<>>

IndexFrame ==
  UNCHANGED <<connVars, scrapeVars, legacyVars, dlVars, folderVars, chanVars>>

\* download.ts 35-51, part_002 388-418: the index text is built from what
\* getAllMdFiles returned.
BuildIndex ==
  /\ ~iBuilt
  /\ IndexFrame
  /\ iBuilt' = TRUE
  /\ \E listing \in Listings :
       /\ iListing' = listing
       /\ iSections' = IndexSections(listing)

IndexNext == BuildIndex

(***************************************************************************)
(* Job update channel on its own: AimdocAPI.connectToJobWebSocket          *)
(* (api.ts 181-223) with callbacks that return, as those of part_002       *)
(* 602-609 do                                                              *)
(***************************************************************************)
ChannelInit ==
  /\ chState = "none"
  /\ chPromise = "pending"
  /\ chTimer = "none"
  /\ chClears = 0
  /\ chTicks = 0
  /\ chPings = 0
  /\ chFrames = 0
  /\ chUpdates = 0
  /\ chErrors = 0
  /\ chCloses = 0
  /\ chOpened = FALSE
  /\ chClientCloses = 0
  /\ chLateCallbacks = 0
  /\ chLatePings = 0
  /\ chParseFails = 0
  /\ chAfterMalformed = 0

ChannelFrame ==
  UNCHANGED <<connVars, scrapeVars, legacyVars, dlVars, folderVars, indexVars>>

\* A callback invoked after the holder called ws.close().
Late(k) == IF chClientCloses > 0 THEN k ELSE 0

\* api.ts 187-188 and 212-216: the socket is created and the interval set;
\* when createJobWebSocket throws, the executor stops before setInterval.
ChConnect(throws) ==
  /\ ChannelFrame
  /\ chState = "none"
  /\ IF throws
       THEN chState' = "failed" /\ chPromise' = "rejected" /\ chTimer' = chTimer
       ELSE chState' = "connecting" /\ chTimer' = "running" /\ chPromise' = chPromise
  /\ UNCHANGED <<chClears, chTicks, chPings, chFrames, chUpdates, chErrors, chCloses,
                 chOpened, chClientCloses, chLateCallbacks, chLatePings,
                 chParseFails, chAfterMalformed>>

\* api.ts 190-192.
ChOpen ==
  /\ ChannelFrame
  /\ chState = "connecting"
  /\ chState' = "open"
  /\ chPromise' = "resolved"
  /\ chOpened' = TRUE
  /\ UNCHANGED <<chTimer, chClears, chTicks, chPings, chFrames, chUpdates, chErrors,
                 chCloses, chClientCloses, chLateCallbacks, chLatePings,
                 chParseFails, chAfterMalformed>>

\* api.ts 194-201: a frame arrives (the socket delivers frames until its close
\* event, also after close() was called); it goes to onUpdate when it parses
\* and to onError when it does not.
ChMessage(parses) ==
  /\ ChannelFrame
  /\ chState \in {"open", "closing"}
  /\ chFrames < MaxFrames
  /\ chFrames' = chFrames + 1
  /\ chUpdates' = IF parses THEN chUpdates + 1 ELSE chUpdates
  /\ chErrors' = IF parses THEN chErrors ELSE chErrors + 1
  /\ chParseFails' = IF parses THEN chParseFails ELSE chParseFails + 1
  /\ chAfterMalformed' =
       IF parses /\ chParseFails > 0 THEN chAfterMalformed + 1 ELSE chAfterMalformed
  /\ chLateCallbacks' = chLateCallbacks + Late(1)
  /\ UNCHANGED <<chState, chPromise, chTimer, chClears, chTicks, chPings, chCloses,
                 chOpened, chClientCloses, chLatePings>>

\* api.ts 203-206: the socket reports an error: onError, and reject, which
\* settles the promise only when it is still pending; the socket that
\* reported the error is closing.
ChError ==
  /\ ChannelFrame
  /\ chState \in {"connecting", "open", "closing"}
  /\ chFrames < MaxFrames
  /\ chFrames' = chFrames + 1
  /\ chErrors' = chErrors + 1
  /\ chPromise' = IF chPromise = "pending" THEN "rejected" ELSE chPromise
  /\ chState' = "closing"
  /\ chLateCallbacks' = chLateCallbacks + Late(1)
  /\ UNCHANGED <<chTimer, chClears, chTicks, chPings, chUpdates, chCloses, chOpened,
                 chClientCloses, chLatePings, chParseFails, chAfterMalformed>>

\* ws.close() by the holder of the socket (part_002 594, 598), who has it
\* once the promise resolved: an open socket starts its closing handshake,
\* a closing or closed one is left as it is.
ChClientClose ==
  /\ ChannelFrame
  /\ chPromise = "resolved"
  /\ chClientCloses < 2
  /\ chClientCloses' = chClientCloses + 1
  /\ chState' = CloseSocket(chState)
  /\ UNCHANGED <<chPromise, chTimer, chClears, chTicks, chPings, chFrames, chUpdates,
                 chErrors, chCloses, chOpened, chLateCallbacks, chLatePings,
                 chParseFails, chAfterMalformed>>

\* api.ts 218-220: what the second close listener does to the interval.
ClearOnCloseMutOpenedOnly(opened) == opened
ClearOnClose(opened) == TRUE

\* api.ts 208-210 and 218-220: the close event, after the closing handshake,
\* after an error, or when the peer closed: onClose, then clearInterval.
ChCloseEvent ==
  /\ ChannelFrame
  /\ chState \in {"open", "closing"}
  /\ chState' = "closed"
  /\ chCloses' = chCloses + 1
  /\ IF ClearOnClose(chOpened)
       THEN chTimer' = "cleared" /\ chClears' = chClears + 1
       ELSE UNCHANGED <<chTimer, chClears>>
  /\ UNCHANGED <<chPromise, chTicks, chPings, chFrames, chUpdates, chErrors,
                 chOpened, chClientCloses, chLateCallbacks, chLatePings,
                 chParseFails, chAfterMalformed>>

\* api.ts 212-216: the interval callback; it sends only on an open socket.
ChTick ==
  /\ ChannelFrame
  /\ chTimer = "running"
  /\ chTicks < MaxTicks
  /\ chTicks' = chTicks + 1
  /\ chPings' = IF chState = "open" THEN chPings + 1 ELSE chPings
  /\ chLatePings' = IF chState = "open" THEN chLatePings + Late(1) ELSE chLatePings
  /\ UNCHANGED <<chState, chPromise, chTimer, chClears, chFrames, chUpdates,
                 chErrors, chCloses, chOpened, chClientCloses, chLateCallbacks,
                 chParseFails, chAfterMalformed>>

ChannelNext ==
  \/ \E throws \in BOOLEAN : ChConnect(throws)
  \/ ChOpen
  \/ \E parses \in BOOLEAN : ChMessage(parses)
  \/ ChError
  \/ ChClientClose
  \/ ChCloseEvent
  \/ ChTick

(***************************************************************************)
(* The push-channel handler (part_002 148-293) and the polling fallback    *)
(* (part_002 750-801) side by side, fed with the same job states           *)
(***************************************************************************)
\* The snapshot getJobStatus returns for the job state that a status_update
\* announces (types.ts 20-38 against 62-77: a snapshot carries no phase and
\* no message).
SnapshotFor(u) ==
  [status |-> u.status, progress |-> ProgressOf(u.progress), error_message |-> u.error]

\* One job state reaches the update callback (part_002 165-276) and the
\* iteration of the fallback loop (part_002 756-794).
DriveBoth ==
  /\ UNCHANGED <<connVars, dlVars, folderVars, indexVars, chanVars>>
  /\ wsState \in {"open", "closing"}
  /\ lPc = "polling"
  /\ \E u \in StatusUpdates :
       /\ u.status = jobState
       /\ HandleUpdate(u)
       /\ PollIteration(SnapshotFor(u))

SideBySideNext ==
  \/ SocketOpen
  \/ \E viaErrorEvent \in BOOLEAN : LEstablishFails(viaErrorEvent)
  \/ JobAdvance
  \/ DriveBoth
  \/ PollWake
  \/ DownloadResultsReturn
  \/ PollDownloadReturn

\* What the push-channel handler shows: the bar (cli-progress) or the spinner.
PushView ==
  IF progressBar.exists
    THEN [indicator |-> "bar",
          state |-> IF progressBar.active THEN "running" ELSE "stopped",
          text |-> [t |-> "Scraping",
                    pr |-> [pages_found |-> progressBar.total,
                            pages_scraped |-> progressBar.value,
                            files_created |-> 0]]]
  ELSE IF currentSpinner.exists
    THEN [indicator |-> "spinner", state |-> currentSpinner.state,
          text |-> PlainText(currentSpinner.text)]
  ELSE [indicator |-> "none", state |-> "none", text |-> PlainText("")]

\* What the fallback shows: its one spinner.
PollView ==
  [indicator |-> "spinner", state |-> pollSpinner.state, text |-> pollSpinner.text]

(***************************************************************************)
(* Specifications                                                          *)
(***************************************************************************)
\* Every component starts in its initial state.
Init ==
  /\ ConnInit
  /\ ScrapeInit
  /\ LegacyInit
  /\ DownloadInit
  /\ FolderInit
  /\ IndexInit
  /\ ChannelInit

SpecConn == Init /\ [][ConnNext]_vars
SpecScrape == Init /\ [][ScrapeNext]_vars
SpecLegacy == Init /\ [][LegacyNext]_vars

\* The same program when the job goes on to a terminal status, every status
\* query that is issued answers or throws, the 2 s timer fires and
\* downloadResults returns.
SpecLegacyLive ==
  /\ Init
  /\ [][LegacyNext]_vars
  /\ WF_vars(JobAdvance)
  /\ WF_vars(PollReturns \/ PollThrows)
  /\ WF_vars(PollWake)
  /\ WF_vars(PollDownloadReturn)
SpecSideBySide == Init /\ [][SideBySideNext]_vars
SpecChannel == Init /\ [][ChannelNext]_vars
SpecDownload == Init /\ [][DownloadNext]_vars
SpecFolder == Init /\ [][FolderNext]_vars
SpecIndex == Init /\ [][IndexNext]_vars

(***************************************************************************)
(* Claims about ensureApiConnection (checked under SpecConn)               *)
(***************************************************************************)

\* C1: a call whose probes fail N times (N below the maximum number of
\* attempts) and then succeed returns a handle and caches it; a later call,
\* with no reset in between, returns that same handle and issues no probe.
C1_RetryThenReuse ==
  /\ (probes > fails) => (cPc \in {"finish", "returned"} /\ cExit = 0)
  /\ (cPc = "returned" /\ probes > 0) =>
        (ret # 0 /\ ret = api /\ fails = probes - 1 /\ fails <= maxRetries)
  /\ (cPc = "returned" /\ prevGood # 0) => (ret = prevGood /\ probes = 0)

C1_Witness ==
  /\ cPc = "returned"
  /\ nCalls >= 2
  /\ prevGood # 0
  /\ goodFails = 3
  /\ ret = prevGood
  /\ probes = 0

\* C2: when every probe of a call fails until the retries are exhausted, the
\* process exits with a non-zero code, the call returns no handle and the
\* cached handle stays unset; a call returns only after a successful probe.
C2_ExhaustedIsFatal ==
  /\ (cPc = "exited") =>
        /\ cExit # 0
        /\ ret = 0
        /\ globalApiInstance = 0
        /\ ~apiConnectionVerified
        /\ fails = probes
  /\ (cPc = "returned") => fails < probes \/ probes = 0
  /\ (cPc = "finish" /\ fails = probes) => fails = maxRetries + 1

C2_Witness ==
  /\ cPc = "exited"
  /\ cExit = 1
  /\ fails = maxRetries + 1
  /\ ret = 0
  /\ globalApiInstance = 0

\* C26 as stated: one call of ensureApiConnection issues at most 12 probes.
C26_AtMostTwelveProbes == probes <= maxRetries

\* C26, amended: one call issues at most 13 probes, the quick check and at
\* most 12 retries (attempts 1 to 12), and it declares the service
\* unavailable only after all 13 have failed.
C26_AtMostThirteenProbes ==
  /\ probes <= maxRetries + 1
  /\ cPc \in {"retry", "wait"} => (attempt \in 1..maxRetries /\ probes = attempt + (IF cPc = "wait" THEN 1 ELSE 0))
  /\ cPc = "exited" => (probes = maxRetries + 1 /\ fails = probes)

C26_Witness ==
  /\ cPc = "exited"
  /\ probes = maxRetries + 1
  /\ attempt = maxRetries + 1
  /\ connSpinner = "failed"

\* C37: the wait after failed attempt k is min(2000 ms x k, 10000 ms), so
\* 2000 k up to k = 5 and 10000 from then on; the waits of one call never
\* decrease and never exceed 10000 ms, and the last attempt is followed by no
\* wait.
C37_BackoffIsCappedAndMonotone ==
  /\ [](cPc = "wait" =>
          /\ attempt \in 1..(maxRetries - 1)
          /\ delay = (IF attempt <= 5 THEN 2000 * attempt ELSE 10000)
          /\ delay <= 10000)
  /\ [][cPc' = "wait" => delay' >= delay]_vars
  /\ [][(cPc = "retry" /\ attempt = maxRetries) =>
          (cPc' = "finish" /\ delay' = delay)]_vars

\* The wait after attempt 11, the last one, is the capped one.
C37_Witness ==
  /\ cPc = "wait"
  /\ attempt = maxRetries - 1
  /\ delay = 10000
  /\ fails = maxRetries

\* The probe of the current call's handle succeeded.
ProbeSucceeded == isHealthy /\ cPc \in {"finish", "returned"}

\* C39: apiConnectionVerified is true only together with a cached handle, the
\* two are written only after a successful probe of that handle, and
\* resetApiConnection clears both, after which the next ensureApiConnection
\* creates a new handle and probes it.
C39_CacheHoldsOnlyVerifiedHandle ==
  /\ [](apiConnectionVerified => (globalApiInstance # 0 /\ globalApiInstance = lastGood))
  /\ [][(globalApiInstance' # globalApiInstance \/ apiConnectionVerified' # apiConnectionVerified) =>
          \/ /\ ProbeSucceeded
             /\ fails < probes
             /\ globalApiInstance' = api
             /\ apiConnectionVerified'
          \/ /\ globalApiInstance' = 0
             /\ ~apiConnectionVerified'
             /\ cPc' = cPc]_vars
  /\ [][(~Cached /\ nCalls' = nCalls + 1) =>
          (cPc' = "quick" /\ api' # api /\ api' # lastGood /\ probes' = 0)]_vars
  /\ []((cPc = "returned" /\ prevGood = 0) => (probes >= 1 /\ fails < probes))

\* After a reset a second call probed a new handle and cached it.
C39_Witness ==
  /\ cPc = "returned"
  /\ nCalls = 2
  /\ prevGood = 0
  /\ globalApiInstance = 2
  /\ apiConnectionVerified
  /\ probes >= 1

(***************************************************************************)
(* Claims about the push-channel handler (checked under SpecScrape)        *)
(***************************************************************************)
StatusStep == updateCalls' = updateCalls + 1 /\ lastFrame' # "pong"

\* C3: while the phases read from the status_update events never decrease,
\* the rendered phase (currentPhase) never decreases.
C3_MonotoneNeverRegresses ==
  [][(StatusStep /\ inputMonotone' /\ currentPhase # None)
       => PhaseOrd(currentPhase') >= PhaseOrd(currentPhase)]_vars

C3_Witness ==
  /\ inputMonotone
  /\ updateCalls = 2
  /\ indicatorsMade = 2
  /\ currentPhase = "converting"
  /\ lastPhaseIn = "converting"

C7_FailedPrintsErrorField ==
  [][(StatusStep /\ lastFrame' = "failed")
       => (/\ dlStarted' = dlStarted
           /\ sExit' # 0 /\ sPc' = "exited"
           /\ (failedUpdate'.error # Absent => printed' = failedUpdate'.error)
           /\ (failedUpdate'.error = Absent /\ failedUpdate'.message # Absent
                 => printed' = failedUpdate'.message))]_vars

\* C7 amended: a failed status_update starts no download, prints the error
\* field when it is a non-empty string, else the message field when that is
\* a non-empty string (else a fixed text), unchanged, and exits with a
\* non-zero code: the process ends there, nothing is retried.
C7_FailedIsFatal ==
  [][(StatusStep /\ lastFrame' = "failed")
       => (/\ dlStarted' = dlStarted
           /\ sExit' # 0 /\ sPc' = "exited"
           /\ (Truthy(failedUpdate'.error) => printed' = failedUpdate'.error)
           /\ (~Truthy(failedUpdate'.error) /\ Truthy(failedUpdate'.message)
                 => printed' = failedUpdate'.message)
           /\ (~Truthy(failedUpdate'.error) /\ ~Truthy(failedUpdate'.message)
                 => printed' = "Job failed with unknown error"))]_vars

C7_Witness ==
  /\ sPc = "exited"
  /\ lastFrame = "failed"
  /\ sExit = 1
  /\ failedUpdate.error = Absent
  /\ failedUpdate.message = "working"
  /\ printed = "working"
  /\ dlStarted = 0

C25_ParseFailureIsSurvivable ==
  [][(nFrames' = nFrames + 1 /\ lastFrame' = "unparseable")
       => (wsState' = wsState /\ sExit' = 0 /\ sPc' = sPc /\ sPc' # "exited")]_vars

\* A status_update whose phase is the rendered one.
SamePhaseStep == StatusStep /\ lastPhaseIn' = currentPhase

NothingMadeOrStopped ==
  /\ indicatorsMade' = indicatorsMade
  /\ indicatorsRetired' = indicatorsRetired
  /\ currentPhase' = currentPhase
  /\ [progressBar' EXCEPT !.value = progressBar.value] = progressBar
  /\ [currentSpinner' EXCEPT !.text = currentSpinner.text] = currentSpinner

\* C27 as stated: a status_update whose phase equals the rendered phase
\* neither stops nor re-creates the active indicator.
C27_SamePhaseKeepsIndicator == [][SamePhaseStep => NothingMadeOrStopped]_vars

\* C27, amended: a status_update whose phase equals the rendered phase and
\* whose status is not terminal neither stops nor re-creates an indicator; it
\* changes at most the value of the bar or the text of the spinner. With a
\* terminal status no indicator is created either.
C27_SamePhaseOnlyRefreshes ==
  [][SamePhaseStep =>
       /\ indicatorsMade' = indicatorsMade
       /\ lastFrame' = "running" => NothingMadeOrStopped]_vars

C27_Witness ==
  /\ currentPhase = "scraping"
  /\ lastPhaseIn = "scraping"
  /\ BarActive(progressBar)
  /\ progressBar.total = 2
  /\ progressBar.value = 0
  /\ indicatorsMade = 1
  /\ indicatorsRetired = 0

\* C30: whatever updates arrive on the push channel of one job, several
\* completed ones and ones that arrive during a download included,
\* downloadResults is called at most once.
C30_DownloadAtMostOnce == dlStarted <= 1

\* The update callback has handled a completed or failed status_update.
TerminalProcessed == dlStarted >= 1 \/ failedUpdate # Pong

\* C31: once a status_update with a terminal status has been handled, no
\* later update changes the rendered phase, installs an indicator, starts a
\* download or sets an exit code.
C31_NothingAfterTerminal ==
  [][TerminalProcessed =>
       /\ currentPhase' = currentPhase
       /\ indicatorsMade' = indicatorsMade
       /\ dlStarted' = dlStarted
       /\ sExit' = sExit]_vars

\* After a failed status_update the process has exited and nothing follows.
NothingAfterFailed ==
  [][failedUpdate # Pong =>
       UNCHANGED <<currentPhase, indicatorsMade, dlStarted, sExit, updateCalls>>]_vars

\* A download started by a completed update has not returned yet.
DownloadPending == dlStarted > dlReturned

\* C32: updates are handled strictly one after the other: while the handling
\* of a completed update is still awaiting its download, the update callback
\* is not entered for a later frame.
C32_HandledInReceiptOrder ==
  [][DownloadPending => updateCalls' = updateCalls]_vars

\* The active indicator is the one the rendered phase calls for.
IndicatorMatchesPhase ==
  /\ currentPhase \in {"discovering", "converting", "downloading"} =>
       SpinnerActive(currentSpinner) /\ ~BarActive(progressBar)
  /\ (currentPhase = "scraping" /\ lastProgress.pages_found > 0) =>
       /\ BarActive(progressBar)
       /\ progressBar.total = lastProgress.pages_found
       /\ ~SpinnerActive(currentSpinner)

\* C33: after every non-terminal status_update of a job that has not
\* completed, the active indicator matches the rendered phase; in scraping
\* the bar is there as soon as a positive pages_found is known.
C33_IndicatorMatchesPhase ==
  [][(StatusStep /\ lastFrame' = "running" /\ dlStarted = 0) =>
       IndicatorMatchesPhase']_vars

\* The update callback was entered for a frame that is not a status_update.
OtherTypeStep == updateCalls' = updateCalls + 1 /\ lastFrame' = "pong"

\* C38: an update of type pong, or of any type other than status_update,
\* changes nothing: rendered phase, indicators, last progress and channel
\* stay as they are, no download is started and the process does not exit.
C38_PongChangesNothing ==
  [][OtherTypeStep =>
       UNCHANGED <<currentPhase, progressBar, currentSpinner, connectionSpinner,
                   connectionMessageHandled, lastProgress, wsState, dlStarted,
                   dlReturned, printed, sExit, sPc>>]_vars

\* A pong was handled after a status_update had installed a spinner.
C38_Witness ==
  /\ lastFrame = "pong"
  /\ updateCalls = 2
  /\ SpinnerActive(currentSpinner)
  /\ currentPhase # None
  /\ wsState = "open"
  /\ sPc = "listening"

\* C40: at most one phase indicator is active, the bar and the phase spinner
\* never both, and every indicator installed earlier has been stopped before
\* its successor was started: the indicators made and not yet stopped are
\* the active one, if any.
C40_OneIndicatorAtATime ==
  /\ ActiveCount(progressBar, currentSpinner) <= 1
  /\ ~(BarActive(progressBar) /\ SpinnerActive(currentSpinner))
  /\ indicatorsMade - indicatorsRetired = ActiveCount(progressBar, currentSpinner)

\* The bar is active and the spinner it replaced has been stopped.
C40_Witness ==
  /\ BarActive(progressBar)
  /\ ~SpinnerActive(currentSpinner)
  /\ currentPhase = "scraping"
  /\ indicatorsMade = 2
  /\ indicatorsRetired = 1

(***************************************************************************)
(* Claims about the polling fallback (checked under SpecLegacy)            *)
(***************************************************************************)

\* C6: the polling fallback is started when the establishment of the push
\* channel throws, and also when a push-channel error is reported after the
\* establishment before any terminal status; such an error does not end the
\* invocation.
C6_ChannelErrorStartsPolling ==
  /\ (lPc \in {"polling", "sleeping", "polldownload", "done"}) => pollStarts = 1
  /\ errAfterOpen => pollStarts >= 1
  /\ (lErrorCalls > 0 /\ ~lTerminal) => lExit = 0

PollLoopActive == lPc \in {"polling", "sleeping"}

\* The ways the loop is left: completed starts downloadResults, failed exits
\* with code 1, a query that throws exits with code 1; a status of pending or
\* running never leaves it.
C20_LoopExit ==
  /\ (PollLoopActive /\ ~PollLoopActive') =>
        \/ jobState = "completed" /\ lPc' = "polldownload" /\ lDlStarted' = lDlStarted + 1
        \/ jobState = "failed" /\ lPc' = "exited" /\ lExit' = 1
        \/ lPc' = "exited" /\ lExit' = 1 /\ lPrinted' = "Failed to check job status"
  /\ (lPc = "polling" /\ lPc' = "sleeping") =>
        jobState \in {"pending", "running"} /\ lExit' = 0 /\ lDlStarted' = 0

C20_LoopEnd ==
  /\ lPc = "polldownload" => (lDlStarted = 1 /\ lDlReturned = 0 /\ lastStatus = "completed")
  /\ lPc = "done" =>
        (lDlStarted = 1 /\ lDlReturned = 1 /\ lastStatus = "completed" /\ lExit = 0)

QueryThrew == lPrinted = "Failed to check job status"

\* C21: a status query of the polling fallback loop that throws ends the
\* invocation with exit code 1: from then on no further query is issued (no
\* retry), the fallback is not started again, no download is started and
\* no further fallback runs.
C21_PollErrorIsFatal ==
  /\ [](QueryThrew => (lPc = "exited" /\ lExit = 1 /\ pollSpinner.state = "failed"))
  /\ [][QueryThrew =>
          /\ nPolls' = nPolls
          /\ pollStarts' = pollStarts
          /\ lDlStarted' = lDlStarted
          /\ lPc' = lPc /\ lExit' = lExit]_vars

C21_Witness ==
  /\ QueryThrew
  /\ nPolls = 2
  /\ lastStatus = "running"
  /\ lPc = "exited"

\* The snapshot is the one rendered last, in status and in progress.
SameAsRendered(st) == st.status = lastStatus /\ st.progress = lastPolled

\* C36: in the polling loop the text is rendered again only for a snapshot
\* whose status or progress differs from the last rendered one; an equal
\* snapshot leaves the text and the remembered status and progress as they
\* were.
C36_RenderOnlyOnChange ==
  [][\A st \in Snapshots :
       PollAnswer(st) =>
         /\ SameAsRendered(st) =>
              UNCHANGED <<pollSpinner, lastStatus, lastPolled, lRenders>>
         /\ (lRenders' # lRenders \/ pollSpinner' # pollSpinner) => ~SameAsRendered(st)]_vars

\* Two snapshots were polled and the second, equal to the first, was not
\* rendered.
C36_Witness ==
  /\ lPc = "sleeping"
  /\ nPolls = 2
  /\ lRenders = 1
  /\ lastStatus = "running"
  /\ lastPolled.tag = "value"

(***************************************************************************)
(* Claims about the job update channel (checked under SpecChannel)         *)
(***************************************************************************)
\* C23: the keepalive interval is cleared exactly once when the socket
\* closes, after a local close, an error or a close by the peer, also when
\* the connection failed before it opened; it is running while the socket
\* is connecting or open, and no interval runs once the socket is closed or
\* when no socket was created.
C23_KeepaliveClearedOnce ==
  /\ chState = "closed" => (chTimer = "cleared" /\ chClears = 1 /\ chCloses = 1)
  /\ chState \in {"connecting", "open", "closing"} => (chTimer = "running" /\ chClears = 0)
  /\ chState \in {"none", "failed"} => (chTimer = "none" /\ chClears = 0)
  /\ chClears <= 1

C23_Witness ==
  /\ chState = "closed"
  /\ ~chOpened
  /\ chErrors = 1
  /\ chPromise = "rejected"
  /\ chTicks >= 1
  /\ chClears = 1

\* After ws.close() no 'ping' is sent, and a second ws.close() changes nothing.
CloseStopsPings == chLatePings = 0
CloseIsIdempotent ==
  [][(chClientCloses > 0 /\ chClientCloses' = chClientCloses + 1)
       => UNCHANGED <<chState, chPromise, chTimer, chClears, chCloses>>]_vars

\* C24: once the holder of the socket has closed the channel, neither the
\* update callback nor the error callback is invoked again and no keepalive
\* frame is sent.
C24_CloseSuppressesCallbacks ==
  chClientCloses > 0 => (chLateCallbacks = 0 /\ chLatePings = 0)

\* On the channel itself a malformed frame closes nothing, and callbacks that
\* return leave later frames to be delivered.
MalformedKeepsChannel ==
  [][chParseFails' = chParseFails + 1 => UNCHANGED <<chState, chPromise, chTimer>>]_vars

(***************************************************************************)
(* Claims about handler and fallback together (checked under SpecSideBySide)*)
(***************************************************************************)
\* Both have started the same number of downloads and exited alike.
SameTerminalAction == dlStarted = lDlStarted /\ sExit = lExit

\* C22: fed with the same job states, the polling fallback shows what the
\* push-channel handler shows (indicator, its state and its text) and takes
\* the same terminal action (download on completed, exit code 1 on failed).
C22_SameRendering ==
  (updateCalls > 0 /\ updateCalls = nPolls) =>
     /\ PushView = PollView
     /\ SameTerminalAction

(***************************************************************************)
(* Claims about the download orchestrator (checked under SpecDownload)     *)
(***************************************************************************)
LoopFinished == dReported \in {"all", "partial"}

\* C9: a failure to fetch or write one manifest entry does not abort the
\* download: the failure is logged as a warning, nothing is raised to the
\* caller (no exit, no outer catch), the loop goes on with the next entry, and
\* when the loop has finished every entry has been fetched and every entry
\* that did not fail has been written.
C9_PerFileFailureIsContained ==
  /\ dWarnings = Cardinality(dFailed)
  /\ (dFailed # {} /\ dPc \in {"fetch", "write"}) =>
        /\ dExit = 0
        /\ dReported = None
        /\ dIdx \in 1..Len(dPlan)
        /\ \A i \in dFailed : i < dIdx
  /\ LoopFinished =>
        /\ dExit = 0
        /\ dFetched = 1..Len(dPlan)
        /\ dWritten = (1..Len(dPlan)) \ dFailed
        /\ \A i \in dWritten : dVariant = "legacy" \/ dPlan[i] # "README.md"
                                  => dDisk[dPlan[i]] = "remote"
        /\ downloadedCount = Cardinality(dWritten)
        /\ (dFailed # {}) = (dReported = "partial")

\* An entry failed and a later entry was still fetched and written.
C9_Witness ==
  /\ LoopFinished
  /\ \E i \in dFailed : \E j \in dWritten : i < j /\ dDisk[dPlan[j]] = "remote"
  /\ dExit = 0

\* C10: with overwrite not force-enabled and at least one planned path
\* already existing, the confirmation is asked before any fetch; when the user
\* declines, nothing is fetched or written, the disk is as it was, the Index
\* Generator is not invoked and the orchestrator returns with no exit code.
C10_DeclineCancelsEverything ==
  /\ (dPc = "prompt" \/ dDeclined) =>
        /\ dPrompted
        /\ ~dOverwrite
        /\ \E i \in 1..Len(dPlan) : dDiskAtStart[dPlan[i]] # None
  /\ (dVariant \in {"command", "legacy"} /\ ~dOverwrite /\ dFetched # {}
        /\ \E i \in 1..Len(dPlan) : dDiskAtStart[dPlan[i]] # None) => dPrompted
  /\ dDeclined =>
        /\ dFetched = {}
        /\ dWritten = {}
        /\ dDisk = dDiskAtStart
        /\ dDirs = dDirsAtStart
        /\ dIndexCalls = 0
        /\ dExit = 0
        /\ dPc = "returned"
        /\ dReported = "cancelled"

\* The user declined while some, but not all, planned paths existed.
C10_Witness ==
  /\ dDeclined
  /\ dPc = "returned"
  /\ Len(dPlan) = 2
  /\ \E i, j \in 1..Len(dPlan) : dDisk[dPlan[i]] # None /\ dDisk[dPlan[j]] = None

\* C11 as stated: on every path that runs the orchestrator, a local file that
\* existed when the run started has other content afterwards only if
\* overwrite was force-enabled or the user confirmed the overwrite.
C11_NoSilentOverwrite ==
  \A f \in Paths :
    (dDiskAtStart[f] # None /\ dDisk[f] # dDiskAtStart[f]) => (dOverwrite \/ dConfirmed)

\* C12 as stated: a second run with overwrite forced (the automatic download
\* overwrites unconditionally), both runs writing every entry and the index
\* without a failure, leaves the destination as the first run left it, the
\* index file included.
C12_SecondRunIdentical ==
  (dRun >= 2 /\ dPrevClean /\ RunClean /\ (dOverwrite \/ dVariant = "auto"))
     => dDisk = dDiskPrev

\* C13 as stated: with an empty manifest the orchestrator reports it and
\* returns without error, having written no file, created no destination
\* directory and not invoked the Index Generator.
C13_EmptyManifestCreatesNothing ==
  dReported = "empty" =>
    /\ dPc = "returned"
    /\ dExit = 0
    /\ dFetched = {} /\ dWritten = {}
    /\ dDisk = dDiskAtStart
    /\ dDirs = dDirsAtStart
    /\ dIndexCalls = 0

\* C16 as stated: the Index Generator writes the index file only when none
\* exists at the destination root; a run of the generator that finds an index
\* changes nothing on disk.
C16_ExistingIndexIsKept ==
  [][(dPc = "index" /\ dPc' = "returned" /\ dDisk["README.md"] # None)
       => (dDisk' = dDisk /\ dDirs' = dDirs)]_vars

\* C18: a failure inside the Index Generator is logged as a warning and does
\* not propagate: the generator returns, and the reported outcome and the
\* exit code of the download are what they were before it ran, as after a
\* successful generation.
C18_IndexFailureIsSwallowed ==
  [][(dPc = "index" /\ dPc' # "index")
       => (/\ dPc' = "returned"
           /\ dReported' = dReported
           /\ dExit' = dExit
           /\ dExit' = 0
           /\ (dIndexWarned' => dDisk' = dDisk))]_vars

\* The generator failed after a download that wrote every entry.
C18_Witness ==
  /\ dIndexWarned
  /\ dPc = "returned"
  /\ dReported = "all"
  /\ dExit = 0
  /\ dWritten # {}

\* C19: in the download command and in the automatic download, the Index
\* Generator is invoked exactly once when the download loop has finished,
\* with full or partial success (also with no entry written), and not before.
C19_IndexOnceAfterLoop ==
  dVariant \in {"command", "auto"} =>
    /\ LoopFinished => (dIndexCalls = 1 /\ dPc \in {"index", "returned"})
    /\ ~LoopFinished => dIndexCalls = 0
    /\ dPc = "index" => LoopFinished

\* The loop finished with no entry written and the generator was invoked.
C19_Witness ==
  /\ dVariant \in {"command", "auto"}
  /\ dReported = "partial"
  /\ downloadedCount = 0
  /\ Len(dPlan) = 2
  /\ dIndexCalls = 1
  /\ dPc = "returned"

\* C28: the destination directory is validated before any query to the remote
\* service is answered, and a destination that cannot be prepared ends the
\* invocation with a non-zero exit code.
C28_ValidatedBeforeRemote ==
  /\ ~dRemoteFirst
  /\ dPrepareFailed => (dPc = "exited" /\ dExit # 0)

\* C29: for a job whose status is not completed the download command queries
\* no manifest, fetches no file, writes nothing and ends with a non-zero exit
\* code.
C29_OnlyCompletedJobs ==
  (dVariant \in {"command", "legacy"} /\ dJobStatus # "completed") =>
     /\ dPc \in {"status", "exited"}
     /\ dPc = "exited" => dExit # 0
     /\ dFetched = {} /\ dWritten = {} /\ dDisk = dDiskAtStart

\* Entries whose fetch has been started: the finished ones and the one in
\* flight.
FetchStarted == dFetched \cup (IF dPc = "fetch" THEN {dIdx} ELSE {})

\* C34: the manifest entries are processed in manifest order, one at a time:
\* while entry i is fetched or written, every earlier entry has been written
\* or has failed and no later entry has been started; when the loop has
\* ended every entry has been written or has failed.
C34_OneEntryAtATimeInOrder ==
  /\ dPc \in {"fetch", "write"} =>
        /\ dIdx \in 1..Len(dPlan)
        /\ \A j \in 1..Len(dPlan) :
              /\ j < dIdx => j \in dWritten \cup dFailed
              /\ j > dIdx => j \notin FetchStarted
        /\ dPc = "write" => dIdx \in dFetched \ dFailed
        /\ dIdx \notin dWritten
  /\ LoopFinished => \A j \in 1..Len(dPlan) : j \in dWritten \cup dFailed
  /\ FetchStarted \subseteq 1..Len(dPlan)

\* The fetch of the second entry is in flight after the first was written.
C34_Witness ==
  /\ dPc = "fetch"
  /\ dIdx = 2
  /\ 1 \in dWritten
  /\ Len(dPlan) = 2

\* Entries that were fetched and written without a failure.
Succeeded == {i \in 1..Len(dPlan) : i \in dFetched /\ i \in dWritten /\ i \notin dFailed}

\* C35: at the end of the loop the reported count is the number of entries
\* fetched and written successfully, it lies between 0 and the manifest
\* length, "all" is reported exactly when it equals that length and a partial
\* result otherwise.
C35_CountMatchesReport ==
  LoopFinished =>
    /\ downloadedCount = Cardinality(Succeeded)
    /\ downloadedCount \in 0..Len(dPlan)
    /\ (dReported = "all") = (downloadedCount = Len(dPlan))
    /\ (dReported = "partial") = (downloadedCount < Len(dPlan))

\* One of two entries was written, the other failed: a partial result.
C35_Witness ==
  /\ LoopFinished
  /\ Len(dPlan) = 2
  /\ downloadedCount = 1
  /\ dReported = "partial"
  /\ dFailed # {}

(***************************************************************************)
(* Claims about the destination folder name (checked under SpecFolder)     *)
(***************************************************************************)
SafeChars == LowerCase \cup UpperCase \cup Digits \cup {".", "-", "_"}

OnlySafeChars(name) == \A i \in 1..Len(name) : name[i] \in SafeChars

\* C14 as stated: every run of the orchestrator, from the download command or
\* from the automatic download of the scrape command, writes under a folder
\* whose name contains only characters of [A-Za-z0-9.-] and '_'.
C14_FolderNameIsSafe ==
  fCaller \in {"command", "scrape"} => OnlySafeChars(fFolder)

\* C15: sanitizeFilename replaces every character outside [A-Za-z0-9.-] by
\* '_' and leaves the others unchanged; the result has the length of the
\* input, only characters of [A-Za-z0-9.-] and '_', and is a fixed point.
C15_SanitizeFilename ==
  fCaller = "sanitizeFilename" =>
    /\ Len(fFolder) = Len(fName)
    /\ \A i \in 1..Len(fName) :
         fFolder[i] = IF fName[i] \in SafeChars \ {"_"} THEN fName[i] ELSE "_"
    /\ OnlySafeChars(fFolder)
    /\ sanitizeFilename(fFolder) = fFolder

\* A name with a blank, a separator and a kept letter has been sanitized.
C15_Witness ==
  /\ fCaller = "sanitizeFilename"
  /\ fName = <<"Z", " ", "/">>
  /\ fFolder = <<"Z", "_", "_">>

(***************************************************************************)
(* Claims about the index text (checked under SpecIndex)                   *)
(***************************************************************************)
\* C17 as stated: the index lists the root-level entries first, then one
\* section per non-root directory in alphabetical order of directory name,
\* and inside every section the links are in alphabetical order.
C17_IndexIsSorted ==
  iBuilt =>
    /\ \A k \in 1..Len(iSections) : iSections[k].dir = "." => k = 1
    /\ \A k, m \in 1..Len(iSections) :
         (k < m /\ iSections[k].dir # ".")
            => CollationRank(iSections[k].dir) < CollationRank(iSections[m].dir)
    /\ \A k \in 1..Len(iSections) :
         \A i, j \in 1..Len(iSections[k].links) :
            i < j => CollationRank(iSections[k].links[i])
                       < CollationRank(iSections[k].links[j])

====
